---- MODULE Spec2Model ----
(***************************************************************************)
(* Model of the interview backend: the Flask handlers of app.py acting on  *)
(* the per-client session dictionary, and the evaluation loop of           *)
(* InterviewAgent (langchain_agent.py).                                     *)
(*                                                                         *)
(* Numbers: a rating is kept in hundredths (8.20 is 820); the number the   *)
(* model puts in its JSON is kept in thousandths (8.204 is 8204).          *)
(***************************************************************************)
EXTENDS Integers, Sequences, FiniteSets, Bags, TLC

VARIABLES
    session,    \* the Flask session dictionary of the client, as its session cookie
                \* holds it between requests
    resp,       \* what the client saw last: the response it received (the operation,
                \* the HTTP status, the body), or the request it sent where the handler
                \* is waiting in a call (op "request")
    loaded,     \* the session the handler of the last response had loaded from the
                \* cookie of its request
    issued,     \* history variable: next-question successes since the last successful start-interview
    closed,     \* history variable: how the last interview ended, until the next one starts:
                \* "no" (none ended), "report" (by a report), "end" (by end-session)
    agent,      \* history variable: what the model calls made while serving the last request
                \* came to, in the order of the calls, and whether the fallback scorer ran
    peer,       \* the Flask session dictionary of a second client
    solo,       \* history variable: for each of the two clients, what its own requests
                \* and their outcomes come to when no other client sends any: resume
                \* summary, difficulty, history, counter and pending question
    memory,     \* chat_memory.messages of an InterviewAgent that is kept over several
                \* calls (the handlers of app.py build a new agent per request and keep
                \* none, so between requests there is no such memory)
    answered,   \* history variable: evaluate_answer calls that agent has returned from
    waiting     \* the requests of the client whose handlers are waiting in a call to
                \* the model or the speech service, a bag: the endpoint, the session
                \* loaded from the cookie the request came with, and the request's data

vars == <<session, resp, loaded, issued, closed, agent, peer, solo, memory, answered, waiting>>

\* ------------------------------------------------------------------ bounds
\* At most this many turns are recorded before /api/evaluate is no longer issued.
MaxTurns == 2
\* At most this many questions are issued before /api/next-question is no longer issued.
MaxQuestions == 2

\* ------------------------------------------------------- the session dict
\* The Flask session is a dictionary: a function whose DOMAIN is the keys stored.
EmptySession == [k \in {} |-> 0]

Has(s, k) == k \in DOMAIN s

Put(s, k, v) == [x \in (DOMAIN s) \cup {k} |-> IF x = k THEN v ELSE s[x]]

\* ----------------------------------------------------------------- inputs
Questions == {"q1", "q2"}
\* An answer is the sequence of its words (answer.split()), taken to be separated by
\* single spaces: the fallback scorer reads the word count and looks for a don't-know
\* phrase.
Words15 == [i \in 1..15 |-> "word"]

Answers == {<<"idk">>, Words15}
Summaries == {"cv1", "cv2"}
\* The keys of the server's environment: os.getenv('OPENROUTER_API_KEY') and
\* os.getenv('GEMINI_API_KEY').
ApiKeys == [openrouter |-> "k-or", gemini |-> "k-gem"]
\* os.getenv('ENABLE_USER_API_KEYS', 'False') == 'True': off unless the deployment
\* sets it.
USE_USER_API_KEYS == FALSE
\* What the client may send as difficulty: the three levels, and anything else.
DifficultyInputs == {"Easy", "Medium", "Hard", "Expert"}

difficulty_order == <<"Easy", "Medium", "Hard">>

IndexOf(seq, x) == CHOOSE i \in 1..Len(seq) : seq[i] = x

InOrder(x) == \E i \in 1..Len(difficulty_order) : difficulty_order[i] = x

\* A piece of text is the sequence of its tokens, WS a blank between two of them.
WS == " "
\* The values a JSON body carries where a handler stores what it is given: a string
\* (t = "str", s its tokens) or a number (t = "num", v in thousandths).
Str(s) == [t |-> "str", s |-> s]

Num(m) == [t |-> "num", v |-> m]

BackendDeveloper == Str(<<"Backend", WS, "Developer">>)

Roles == {BackendDeveloper}
Models == {"gemini-2.5-flash"}

\* ------------------------------------------------------------- floats
\* float('nan'): json.loads accepts the token NaN, and every comparison with it is false.
NaN == -1

FloatGt(r, x) == r # NaN /\ r > x

FloatLt(r, x) == r # NaN /\ r < x

\* ------------------------------------------- InterviewAgent.evaluate_answer
\* The number in the rating field (thousandths) clamped to [1.0, 10.0].
ClampRating(m) == IF m < 1000 \/ m > 10000
                  THEN (IF m > 10000 THEN 10000 ELSE IF m < 1000 THEN 1000 ELSE m)
                  ELSE m

\* float(): the rating is held as the binary double nearest to m/1000. For m/1000 in
\* [1, 10] the double is n * 2^(e - 52), with 2^e <= m/1000 < 2^(e + 1) and n the
\* integer nearest to m * 2^(52 - e) / 1000.
RECURSIVE BinaryExponent(_)
BinaryExponent(m) == IF m < 2000 THEN 0 ELSE 1 + BinaryExponent(m \div 2)

RECURSIVE PowerOfTwoMod(_)
PowerOfTwoMod(k) == IF k = 0 THEN 1 ELSE (2 * PowerOfTwoMod(k - 1)) % 1000

\* round(rating, 2), in hundredths: the decimal with 2 places nearest to the double.
\* A third decimal of 5 is a tie only when the double is exact (then half-even);
\* otherwise the side on which the double lies decides. f is the remainder of
\* m * 2^(52 - e) by 1000: 0 when the double is m/1000 exactly, below 500 when the
\* double lies under m/1000, above 500 when it lies over it (500 itself never
\* occurs, 2^(52 - e) being a multiple of 8).
Round2(m) == LET q == m \div 10
                 r == m % 10
                 f == ((m % 1000) * PowerOfTwoMod(52 - BinaryExponent(m))) % 1000
             IN IF r < 5 THEN q
                ELSE IF r > 5 THEN q + 1
                ELSE IF f = 0 THEN (IF q % 2 = 0 THEN q ELSE q + 1)
                ELSE IF f < 500 THEN q ELSE q + 1

\* rating = float(evaluation['rating']); clamp; round(rating, 2). The rating field is
\* a number (t = "num", v its value in thousandths), or one of the tokens NaN,
\* Infinity, -Infinity that json.loads accepts.
NormalizeRating(rv) ==
    CASE rv.t = "nan" -> NaN
      [] rv.t = "inf" -> 1000
      [] rv.t = "ninf" -> 100
      [] OTHER -> Round2(ClampRating(rv.v))

\* A JSON object the model returned, after json.loads: a dictionary.
ModelObject(rv) == [rating |-> rv, strengths |-> "clear", improvements |-> "depth",
                    missing_points |-> "testing"]

required_fields == <<"rating", "strengths", "improvements">>

\* The parsed dictionary after validation and normalisation (lines 233-260): the
\* dictionary itself is returned (265), so a member of any other name stays in it as
\* it was parsed.
NormalizeEvaluation(obj) ==
    [k \in DOMAIN obj \cup {"missing_points"} |->
        CASE k = "rating" -> NormalizeRating(obj["rating"])
          [] k = "missing_points" ->
                IF Has(obj, "missing_points") THEN obj["missing_points"] ELSE "N/A"
          [] OTHER -> obj[k]]

\* What one pass of the retry loop's body does with the outcome o of the model call:
\*   "ok"      the evaluation is returned;
\*   "parse"   json.JSONDecodeError or ValueError, caught by the first handler;
\*   "unbound" the first handler itself fails: it prints result, which no attempt
\*             has assigned yet (the ValueError came from llm.invoke);
\*   "other"   any other exception, caught by the second handler.
AttemptClass(o, bound) ==
    CASE o.kind = "invoke_error" -> "other"
      [] o.kind = "invoke_value_error" -> IF bound THEN "parse" ELSE "unbound"
      [] o.kind = "bad_json" -> "parse"
      [] o.kind = "json_value" ->
            \* json.loads gave a value that is not an object. o.holds are the names
            \* that "in" finds in it: elements of a list, substrings of a string.
            IF o.type = "scalar" THEN "other"
            ELSE IF "missing_points" \in o.holds THEN "other"
            ELSE IF \E i \in 1..Len(required_fields) : required_fields[i] \notin o.holds
            THEN "parse"
            ELSE "other"
      [] o.kind = "json" ->
            IF \E i \in 1..Len(required_fields) : ~Has(o.value, required_fields[i])
            THEN "parse"
            ELSE IF o.value["rating"].t = "str" THEN "parse"
            ELSE IF o.value["rating"].t = "null" THEN "other"
            ELSE "ok"

\* Whether result holds a value once the attempt with outcome o is over.
BindsResult(o) == o.kind \in {"bad_json", "json_value", "json"}

dont_know_phrases == {<<"i", "dont", "know">>, <<"i", "don't", "know">>, <<"idk">>,
                      <<"no", "idea">>, <<"dont", "know">>, <<"don't", "know">>,
                      <<"not", "sure">>, <<"no", "clue">>}

\* str.lower() on the words used in answers.
Lower(w) ==
    LET LowerCase == ("IDK" :> "idk") @@ ("Not" :> "not") @@ ("Sure" :> "sure")
    IN  IF w \in DOMAIN LowerCase THEN LowerCase[w] ELSE w

\* phrase in answer_lower, on an answer given as the sequence of its lower-cased
\* words: the phrase's words occur next to each other. (The code looks for the phrase
\* as a substring of the text; the two agree as long as no word of the answer holds a
\* phrase inside it, which is the case for the words used here.)
ContainsPhrase(answer, phrase) ==
    \E i \in 1..Len(answer) :
        /\ i + Len(phrase) - 1 <= Len(answer)
        /\ \A j \in 1..Len(phrase) : answer[i + j - 1] = phrase[j]

\* Mutant of FallbackEvaluation: the length is looked at first, a don't-know phrase
\* only in an answer of fewer than 10 words.
FallbackEvaluation_LengthFirst(answer) ==
    LET answer_lower == [i \in 1..Len(answer) |-> Lower(answer[i])]
        answer_length == Len(answer)
        is_dont_know == \E p \in dont_know_phrases : ContainsPhrase(answer_lower, p)
        sentinel == "Unable to parse detailed feedback from evaluation system"
    IN IF answer_length >= 30
       THEN [rating |-> 600, strengths |-> "Detailed response provided",
             improvements |-> "Structure could be improved for clarity",
             missing_points |-> sentinel]
       ELSE IF answer_length >= 10
       THEN [rating |-> 500, strengths |-> "Provided some relevant information",
             improvements |-> "Expand on concepts and add more depth",
             missing_points |-> sentinel]
       ELSE IF is_dont_know \/ answer_length < 3
       THEN [rating |-> 150, strengths |-> "Candidate was honest about not knowing",
             improvements |-> "Study the topic and provide a substantive answer",
             missing_points |-> sentinel]
       ELSE [rating |-> 300, strengths |-> "Brief attempt at answering",
             improvements |-> "Provide more detailed explanation with examples",
             missing_points |-> sentinel]

\* Mutant of FallbackEvaluation: missing_points gets the default of a parsed record.
FallbackEvaluation_NoSentinel(answer) ==
    LET answer_lower == [i \in 1..Len(answer) |-> Lower(answer[i])]
        answer_length == Len(answer)
        is_dont_know == \E p \in dont_know_phrases : ContainsPhrase(answer_lower, p)
    IN IF is_dont_know \/ answer_length < 3
       THEN [rating |-> 150, strengths |-> "Candidate was honest about not knowing",
             improvements |-> "Study the topic and provide a substantive answer",
             missing_points |-> "N/A"]
       ELSE IF answer_length < 10
       THEN [rating |-> 300, strengths |-> "Brief attempt at answering",
             improvements |-> "Provide more detailed explanation with examples",
             missing_points |-> "N/A"]
       ELSE IF answer_length < 30
       THEN [rating |-> 500, strengths |-> "Provided some relevant information",
             improvements |-> "Expand on concepts and add more depth",
             missing_points |-> "N/A"]
       ELSE [rating |-> 600, strengths |-> "Detailed response provided",
             improvements |-> "Structure could be improved for clarity",
             missing_points |-> "N/A"]

\* Mutant of FallbackEvaluation: an answer of 30 words or more is scored 8.00.
FallbackEvaluation_LongAnswerHigh(answer) ==
    LET answer_lower == [i \in 1..Len(answer) |-> Lower(answer[i])]
        answer_length == Len(answer)
        is_dont_know == \E p \in dont_know_phrases : ContainsPhrase(answer_lower, p)
        sentinel == "Unable to parse detailed feedback from evaluation system"
    IN IF is_dont_know \/ answer_length < 3
       THEN [rating |-> 150, strengths |-> "Candidate was honest about not knowing",
             improvements |-> "Study the topic and provide a substantive answer",
             missing_points |-> sentinel]
       ELSE IF answer_length < 10
       THEN [rating |-> 300, strengths |-> "Brief attempt at answering",
             improvements |-> "Provide more detailed explanation with examples",
             missing_points |-> sentinel]
       ELSE IF answer_length < 30
       THEN [rating |-> 500, strengths |-> "Provided some relevant information",
             improvements |-> "Expand on concepts and add more depth",
             missing_points |-> sentinel]
       ELSE [rating |-> 800, strengths |-> "Detailed response provided",
             improvements |-> "Structure could be improved for clarity",
             missing_points |-> sentinel]

FallbackEvaluation(answer) ==
    LET answer_lower == [i \in 1..Len(answer) |-> Lower(answer[i])]
        answer_length == Len(answer)
        is_dont_know == \E p \in dont_know_phrases : ContainsPhrase(answer_lower, p)
        sentinel == "Unable to parse detailed feedback from evaluation system"
    IN IF is_dont_know \/ answer_length < 3
       THEN [rating |-> 150, strengths |-> "Candidate was honest about not knowing",
             improvements |-> "Study the topic and provide a substantive answer",
             missing_points |-> sentinel]
       ELSE IF answer_length < 10
       THEN [rating |-> 300, strengths |-> "Brief attempt at answering",
             improvements |-> "Provide more detailed explanation with examples",
             missing_points |-> sentinel]
       ELSE IF answer_length < 30
       THEN [rating |-> 500, strengths |-> "Provided some relevant information",
             improvements |-> "Expand on concepts and add more depth",
             missing_points |-> sentinel]
       ELSE [rating |-> 600, strengths |-> "Detailed response provided",
             improvements |-> "Structure could be improved for clarity",
             missing_points |-> sentinel]

\* Mutant of AgentEvaluate: the loop does not return from inside the first pass, so
\* the second call is made whatever the first one gave.
AgentEvaluate_AlwaysTwoCalls(answer, o1, o2) ==
    LET c1 == AttemptClass(o1, FALSE)
        c2 == AttemptClass(o2, BindsResult(o1))
    IN CASE c1 = "ok" ->
              [kind |-> "return", calls |-> 2, attempts |-> <<o1, o2>>, fallback |-> FALSE,
               evaluation |-> NormalizeEvaluation(o1.value)]
         [] c1 = "unbound" ->
              [kind |-> "raise", calls |-> 1, attempts |-> <<o1>>, fallback |-> FALSE]
         [] c1 \in {"parse", "other"} /\ c2 = "ok" ->
              [kind |-> "return", calls |-> 2, attempts |-> <<o1, o2>>, fallback |-> FALSE,
               evaluation |-> NormalizeEvaluation(o2.value)]
         [] c1 \in {"parse", "other"} /\ c2 = "parse" ->
              [kind |-> "return", calls |-> 2, attempts |-> <<o1, o2>>, fallback |-> TRUE,
               evaluation |-> FallbackEvaluation(answer)]
         [] c1 \in {"parse", "other"} /\ c2 \in {"other", "unbound"} ->
              [kind |-> "raise", calls |-> 2, attempts |-> <<o1, o2>>, fallback |-> FALSE]

\* Mutant of AgentEvaluate: the fallback is used as soon as an output fails to parse.
AgentEvaluate_FallbackAtOnce(answer, o1, o2) ==
    LET c1 == AttemptClass(o1, FALSE)
        c2 == AttemptClass(o2, BindsResult(o1))
    IN CASE c1 = "ok" ->
              [kind |-> "return", calls |-> 1, attempts |-> <<o1>>, fallback |-> FALSE,
               evaluation |-> NormalizeEvaluation(o1.value)]
         [] c1 = "unbound" ->
              [kind |-> "raise", calls |-> 1, attempts |-> <<o1>>, fallback |-> FALSE]
         [] c1 = "parse" ->
              [kind |-> "return", calls |-> 1, attempts |-> <<o1>>, fallback |-> TRUE,
               evaluation |-> FallbackEvaluation(answer)]
         [] c1 = "other" /\ c2 = "ok" ->
              [kind |-> "return", calls |-> 2, attempts |-> <<o1, o2>>, fallback |-> FALSE,
               evaluation |-> NormalizeEvaluation(o2.value)]
         [] c1 = "other" /\ c2 = "parse" ->
              [kind |-> "return", calls |-> 2, attempts |-> <<o1, o2>>, fallback |-> TRUE,
               evaluation |-> FallbackEvaluation(answer)]
         [] c1 = "other" /\ c2 \in {"other", "unbound"} ->
              [kind |-> "raise", calls |-> 2, attempts |-> <<o1, o2>>, fallback |-> FALSE]

\* The retry loop (max_retries = 2) over the outcomes o1, o2 of the two model calls;
\* o2 is read only when a second call is made.
AgentEvaluate(answer, o1, o2) ==
    LET c1 == AttemptClass(o1, FALSE)
        c2 == AttemptClass(o2, BindsResult(o1))
    IN CASE c1 = "ok" ->
              [kind |-> "return", calls |-> 1, attempts |-> <<o1>>, fallback |-> FALSE,
               evaluation |-> NormalizeEvaluation(o1.value)]
         [] c1 = "unbound" ->
              [kind |-> "raise", calls |-> 1, attempts |-> <<o1>>, fallback |-> FALSE]
         [] c1 \in {"parse", "other"} /\ c2 = "ok" ->
              [kind |-> "return", calls |-> 2, attempts |-> <<o1, o2>>, fallback |-> FALSE,
               evaluation |-> NormalizeEvaluation(o2.value)]
         [] c1 \in {"parse", "other"} /\ c2 = "parse" ->
              [kind |-> "return", calls |-> 2, attempts |-> <<o1, o2>>, fallback |-> TRUE,
               evaluation |-> FallbackEvaluation(answer)]
         [] c1 \in {"parse", "other"} /\ c2 \in {"other", "unbound"} ->
              [kind |-> "raise", calls |-> 2, attempts |-> <<o1, o2>>, fallback |-> FALSE]

\* ------------------------------------------------ the text of a response
\* A text is the sequence of its tokens. A token is a run of characters that the
\* code's string operations never split: a brace, a bracket, a colon, a comma, a
\* blank, a double quote, an escaped double quote (backslash and quote), a code fence
\* (three backquotes), an ellipsis (three dots), or a word (letters, or a number
\* literal) holding none of these characters.
Quote == "\""

EscQuote == "\\\""

\* Stands for the three backquotes of a code fence.
Fence == "<fence>"

Ellipsis == "..."

\* The tokens in which str.count('"') and str.rfind('"') find a '"'.
HoldsQuote(tok) == tok \in {Quote, EscQuote}

Least(S) == CHOOSE i \in S : \A j \in S : i <= j

Greatest(S) == CHOOSE i \in S : \A j \in S : i >= j

\* str.count(tok)
Count(text, tok) == Cardinality({i \in 1..Len(text) : text[i] = tok})

\* str.strip()
strip(text) ==
    LET solid == {i \in 1..Len(text) : text[i] # WS}
    IN IF solid = {} THEN <<>> ELSE SubSeq(text, Least(solid), Greatest(solid))

\* Where the first code fence at or after position i is; past the end if there is none.
NextFence(text, i) ==
    LET at == {j \in i..Len(text) : text[j] = Fence}
    IN IF at = {} THEN Len(text) + 1 ELSE Least(at)

\* Where a fence followed at once by the word json occurs in the text.
JsonFences(text) == {i \in 1..(Len(text) - 1) : text[i] = Fence /\ text[i + 1] = "json"}

\* Lines 204-207, with F for a fence: result.split('Fjson')[1].split('F')[0].strip()
\* if 'Fjson' is in the text, else result.split('F')[1].split('F')[0].strip() if 'F'
\* is.
StripFences(result) ==
    IF JsonFences(result) # {}
    THEN LET i == Least(JsonFences(result))
         IN strip(SubSeq(result, i + 2, NextFence(result, i + 2) - 1))
    ELSE IF Count(result, Fence) > 0
    THEN LET i == NextFence(result, 1)
         IN strip(SubSeq(result, i + 1, NextFence(result, i + 1) - 1))
    ELSE result

\* Line 210: result.endswith('...') or not result.endswith('}').
NeedsRepair(result) == result = <<>> \/ result[Len(result)] # "}"

\* Lines 216-221: with '...' anywhere in the text, it is cut after the last '"' in
\* front of the last comma. rfind(',') is -1 when there is no comma, and
\* rfind('"', 0, -1) then looks at everything but the last character. last_quote > 0
\* fails for a quote that is the first character of the text.
CutAtLastField(result) ==
    LET commas == {i \in 1..Len(result) : result[i] = ","}
        last_comma == IF commas = {} THEN Len(result) ELSE Greatest(commas)
        quotes == {j \in 1..(last_comma - 1) : HoldsQuote(result[j])}
    IN IF /\ Count(result, Ellipsis) > 0
          /\ quotes # {}
          /\ (Greatest(quotes) > 1 \/ result[1] = EscQuote)
       THEN SubSeq(result, 1, Greatest(quotes))
       ELSE result

\* Lines 224-225: a '"' is added to an odd number of them.
CloseString(result) ==
    IF (Count(result, Quote) + Count(result, EscQuote)) % 2 # 0
    THEN Append(result, Quote)
    ELSE result

\* Lines 210-228, the repair of a text that ends with '...' or does not end with '}'.
\* open_braces is counted (213) before anything is cut, and that many '}' are added
\* (228); a negative number adds none.
RepairTruncated(result) ==
    IF ~NeedsRepair(result) THEN result
    ELSE LET open_braces == Count(result, "{") - Count(result, "}")
         IN CloseString(CutAtLastField(result)) \o [i \in 1..open_braces |-> "}"]

\* float(): the number literals used in the texts, in thousandths.
float_literals ==
    ("1.0" :> 1000) @@ ("5.55" :> 5550) @@ ("8.2" :> 8200) @@ ("10.0" :> 10000)
    @@ ("12" :> 12000) @@ ("0" :> 0)

\* The constants json.loads and float() take for non-finite numbers.
float_constants ==
    ("NaN" :> [t |-> "nan", v |-> 0]) @@ ("Infinity" :> [t |-> "inf", v |-> 0])
    @@ ("-Infinity" :> [t |-> "ninf", v |-> 0])

\* json.loads. A value is [t |-> "str", s |-> the tokens of the string],
\* [t |-> "list", items |-> the values], [t |-> "obj", fields |-> the dictionary],
\* a number Num(m), a non-finite number, true or false ([t |-> "bool", v |-> 1 or 0])
\* or null. A parse gives the value and the position after it, or fails.
ParseFail == [ok |-> FALSE]

ParseOk(v, next) == [ok |-> TRUE, v |-> v, next |-> next]

SkipWs(text, i) ==
    LET solid == {j \in i..Len(text) : text[j] # WS}
    IN IF solid = {} THEN Len(text) + 1 ELSE Least(solid)

Unescape(tok) == IF tok = EscQuote THEN Quote ELSE tok

\* A string literal that opens at position i: it runs to the next unescaped quote.
ParseString(text, i) ==
    LET ends == {j \in (i + 1)..Len(text) : text[j] = Quote}
    IN IF ends = {} THEN ParseFail
       ELSE LET j == Least(ends)
            IN ParseOk([t |-> "str", s |-> [k \in 1..(j - i - 1) |-> Unescape(text[i + k])]],
                       j + 1)

RECURSIVE ParseValue(_, _), ParseItems(_, _, _), ParseMembers(_, _, _)
ParseValue(text, i0) ==
    LET i == SkipWs(text, i0)
    IN IF i > Len(text) THEN ParseFail
       ELSE CASE text[i] = Quote -> ParseString(text, i)
              [] text[i] = "[" ->
                    LET j == SkipWs(text, i + 1)
                    IN IF j <= Len(text) /\ text[j] = "]"
                       THEN ParseOk([t |-> "list", items |-> <<>>], j + 1)
                       ELSE ParseItems(text, i + 1, <<>>)
              [] text[i] = "{" ->
                    LET j == SkipWs(text, i + 1)
                    IN IF j <= Len(text) /\ text[j] = "}"
                       THEN ParseOk([t |-> "obj", fields |-> EmptySession], j + 1)
                       ELSE ParseMembers(text, i + 1, EmptySession)
              [] text[i] \in DOMAIN float_literals ->
                    ParseOk(Num(float_literals[text[i]]), i + 1)
              [] text[i] \in DOMAIN float_constants ->
                    ParseOk(float_constants[text[i]], i + 1)
              [] text[i] = "null" -> ParseOk([t |-> "null", v |-> 0], i + 1)
              [] text[i] = "true" -> ParseOk([t |-> "bool", v |-> 1], i + 1)
              [] text[i] = "false" -> ParseOk([t |-> "bool", v |-> 0], i + 1)
              [] OTHER -> ParseFail

\* The items of a list after its '[' or a ',': a value, then ',' or ']'.
ParseItems(text, i, acc) ==
    LET r == ParseValue(text, i)
    IN IF ~r.ok THEN ParseFail
       ELSE LET j == SkipWs(text, r.next)
            IN IF j > Len(text) THEN ParseFail
               ELSE IF text[j] = "," THEN ParseItems(text, j + 1, Append(acc, r.v))
               ELSE IF text[j] = "]"
               THEN ParseOk([t |-> "list", items |-> Append(acc, r.v)], j + 1)
               ELSE ParseFail

\* The members of an object after its '{' or a ',': a string, ':', a value, then ','
\* or '}'. A later member replaces an earlier one of the same name. A member whose
\* name is one token is held under that name; the members whose names are of no
\* token or of several are held together, each with its name, under "(other names)".
ParseMembers(text, i0, acc) ==
    LET i == SkipWs(text, i0)
    IN IF i > Len(text) \/ text[i] # Quote THEN ParseFail
       ELSE LET k == ParseString(text, i)
            IN IF ~k.ok THEN ParseFail
               ELSE LET c == SkipWs(text, k.next)
                    IN IF c > Len(text) \/ text[c] # ":" THEN ParseFail
                       ELSE LET r == ParseValue(text, c + 1)
                            IN IF ~r.ok THEN ParseFail
                               ELSE LET j == SkipWs(text, r.next)
                                        others == IF Has(acc, "(other names)")
                                                  THEN acc["(other names)"] ELSE {}
                                        acc2 == IF Len(k.v.s) = 1
                                                THEN Put(acc, k.v.s[1], r.v)
                                                ELSE Put(acc, "(other names)",
                                                         {m \in others : m.name # k.v.s}
                                                         \cup {[name |-> k.v.s, v |-> r.v]})
                                    IN IF j > Len(text) THEN ParseFail
                                       ELSE IF text[j] = ","
                                       THEN ParseMembers(text, j + 1, acc2)
                                       ELSE IF text[j] = "}"
                                       THEN ParseOk([t |-> "obj", fields |-> acc2], j + 1)
                                       ELSE ParseFail

\* json.loads(result): the whole text is one value.
json_loads(text) ==
    LET r == ParseValue(text, 1)
    IN IF r.ok /\ SkipWs(text, r.next) > Len(text) THEN [ok |-> TRUE, v |-> r.v]
       ELSE ParseFail

\* str(): a string is itself, a number its shortest literal, null is None, true is
\* True and false False. The text of a list or an object is not spelled out.
StrTokens(v) ==
    CASE v.t = "str" -> v.s
      [] v.t = "num" -> <<CHOOSE lit \in DOMAIN float_literals : float_literals[lit] = v.v>>
      [] v.t = "null" -> <<"None">>
      [] v.t = "bool" -> IF v.v = 1 THEN <<"True">> ELSE <<"False">>
      [] v.t = "nan" -> <<"nan">>
      [] v.t = "inf" -> <<"inf">>
      [] v.t = "ninf" -> <<"-inf">>
      [] OTHER -> <<"(repr)">>

\* ', '.join(str(item) for item in items)
RECURSIVE JoinItems(_)
JoinItems(items) ==
    IF items = <<>> THEN <<>>
    ELSE IF Len(items) = 1 THEN StrTokens(items[1])
    ELSE StrTokens(items[1]) \o <<",", WS>> \o JoinItems(Tail(items))

\* What float(evaluation['rating']) is given: a number, true or false (1.0 and 0.0),
\* null or a list or an object (TypeError), or a string. float() strips the string and
\* reads a number literal, or inf, infinity or nan in any mix of cases with a sign or
\* without one; it refuses every other word (ValueError). Of the mixed-case spellings
\* of infinity the texts use the three listed.
RatingField(v) ==
    LET plus_inf == {"INF", "INf", "InF", "Inf", "iNF", "iNf", "inF", "inf",
                     "infinity", "Infinity", "INFINITY", "+INF", "+INf",
                     "+InF", "+Inf", "+iNF", "+iNf", "+inF", "+inf",
                     "+infinity", "+Infinity", "+INFINITY"}
        minus_inf == {"-INF", "-INf", "-InF", "-Inf", "-iNF", "-iNf", "-inF",
                      "-inf", "-infinity", "-Infinity", "-INFINITY"}
        not_a_number == {"NAN", "NAn", "NaN", "Nan", "nAN", "nAn", "naN",
                         "nan", "+NAN", "+NAn", "+NaN", "+Nan", "+nAN",
                         "+nAn", "+naN", "+nan", "-NAN", "-NAn", "-NaN",
                         "-Nan", "-nAN", "-nAn", "-naN", "-nan"}
    IN CASE v.t = "str" ->
               LET s == strip(v.s)
               IN IF Len(s) # 1 THEN [t |-> "str", v |-> 0]
                  ELSE IF s[1] \in DOMAIN float_literals THEN Num(float_literals[s[1]])
                  ELSE IF s[1] \in plus_inf THEN [t |-> "inf", v |-> 0]
                  ELSE IF s[1] \in minus_inf THEN [t |-> "ninf", v |-> 0]
                  ELSE IF s[1] \in not_a_number THEN [t |-> "nan", v |-> 0]
                  ELSE [t |-> "str", v |-> 0]
         [] v.t \in {"list", "obj"} -> [t |-> "null", v |-> 0]
         [] v.t = "bool" -> Num(1000 * v.v)
         [] OTHER -> v

EvaluationKeys == {"rating", "strengths", "improvements", "missing_points"}

\* The parsed dictionary as the validation sees it: missing_points joined if it is a
\* list and made a string otherwise (233-238), the string fields stripped (258-260);
\* every other member is left as json.loads gave it.
EvaluationFields(fields) ==
    [k \in DOMAIN fields |->
        CASE k = "rating" -> RatingField(fields[k])
          [] k = "missing_points" /\ fields[k].t = "list" ->
                strip(JoinItems(fields[k].items))
          [] k \in {"strengths", "improvements", "missing_points"} ->
                strip(StrTokens(fields[k]))
          [] OTHER -> fields[k]]

\* The names that "in" finds in a value that is no dictionary: the elements of a
\* list, the words of a string.
HeldNames(v) ==
    CASE v.t = "list" ->
            {k \in EvaluationKeys :
                \E i \in 1..Len(v.items) : v.items[i].t = "str" /\ v.items[i].s = <<k>>}
      [] v.t = "str" -> {k \in EvaluationKeys : Count(v.s, k) > 0}
      [] OTHER -> {}

\* What a text returned by the model comes to in one pass of the loop body (lines
\* 199-238): the text is stripped, freed of its fences, repaired and parsed.
Interpret(text) ==
    LET parsed == json_loads(RepairTruncated(StripFences(strip(text))))
    IN IF ~parsed.ok THEN [kind |-> "bad_json", text |-> text]
       ELSE CASE parsed.v.t = "obj" ->
                    [kind |-> "json", value |-> EvaluationFields(parsed.v.fields),
                     text |-> text]
              [] parsed.v.t = "list" ->
                    [kind |-> "json_value", type |-> "list", holds |-> HeldNames(parsed.v),
                     text |-> text]
              [] parsed.v.t = "str" ->
                    [kind |-> "json_value", type |-> "string",
                     holds |-> HeldNames(parsed.v), text |-> text]
              [] OTHER ->
                    [kind |-> "json_value", type |-> "scalar", holds |-> {}, text |-> text]

\* --------------------------------------- the agent's conversation memory
\* memory.chat_memory.messages is the sequence of the messages added, oldest first.
\* add_user_message(f"Generated question: {question}")
add_user_message(messages, question) ==
    Append(messages, [type |-> "human", text |-> <<"Generated question", question>>])

\* add_ai_message(f"Answer evaluated: Rating {evaluation['rating']}/10")
add_ai_message(messages, rating) ==
    Append(messages, [type |-> "ai", text |-> <<"Answer evaluated", rating>>])

\* Mutant of manage_memory_threshold: past the threshold only the 10 newest messages
\* are kept.
manage_memory_threshold_KeepsTen(messages) ==
    IF Len(messages) > 20
    THEN SubSeq(messages, Len(messages) - 9, Len(messages))
    ELSE messages

\* _manage_memory_threshold: messages[10:] when there are more than 20.
manage_memory_threshold(messages) ==
    IF Len(messages) > 20
    THEN SubSeq(messages, 11, Len(messages))
    ELSE messages

\* InterviewAgent.generate_question on an agent holding messages: the threshold is
\* applied first, then the model is called, and the question it returns is added; a
\* failing call is re-raised after the threshold was applied.
generate_question(messages, llm) ==
    LET kept == manage_memory_threshold(messages)
    IN IF llm.kind = "fail"
       THEN [kind |-> "raise", messages |-> kept]
       ELSE [kind |-> "return", question |-> llm.text,
             messages |-> add_user_message(kept, llm.text)]

\* What InterviewAgent.evaluate_answer leaves in the memory: a message is added only
\* where an attempt's object is accepted (line 263); the fallback return and the
\* re-raise add nothing.
EvaluationMessages(messages, result) ==
    IF result.kind = "return" /\ ~result.fallback
    THEN add_ai_message(messages, result.evaluation.rating)
    ELSE messages

\* ------------------------------------------------------------------ app.py
Resp(op, status) == [op |-> op, status |-> status]

\* What the agent did for one request: what its model calls came to, in the order of
\* the calls, and whether the fallback scorer ran.
Calls(attempts, fallback) == [attempts |-> attempts, fallback |-> fallback]

NoCalls == Calls(<<>>, FALSE)

\* A request served with no model call: the session it leaves and its response.
Out(s, r) == [session |-> s, resp |-> r, agent |-> NoCalls]

\* A request served after the model calls a.
OutCalls(s, r, a) == [session |-> s, resp |-> r, agent |-> a]

\* "hinglish" if session.get('hinglish_mode') else session['language']
ResponseLanguage(s) ==
    IF Has(s, "hinglish_mode") /\ s["hinglish_mode"] THEN "hinglish" ELSE s["language"]

\* The api_keys dictionary upload_resume builds: the two fields of the request's form
\* where the deployment takes the user's keys (user_keys, the value of
\* USE_USER_API_KEYS there), the keys of the server's environment where it does not.
UploadKeys(user_keys, form) ==
    \* request.form.get(k, '')
    LET get(k) == IF Has(form, k) THEN form[k] ELSE ""
    IN IF user_keys
       THEN [openrouter |-> get("openrouter_key"), gemini |-> get("gemini_key")]
       ELSE ApiKeys

\* POST /api/upload. form is the request's form, o what the upload, the text
\* extraction and the summarising model call come to.
upload_resume(s, user_keys, form, o) ==
    CASE o.kind \in {"no_file", "no_filename", "bad_type", "short_text"} ->
            Out(s, Resp("upload", 400))
      [] o.kind = "extract_fail" -> Out(s, Resp("upload", 500))
      [] o.kind = "llm_fail" -> OutCalls(s, Resp("upload", 500), Calls(<<o>>, FALSE))
      [] o.kind = "ok" ->
            OutCalls(Put(Put(s, "resume_summary", o.summary), "api_keys",
                         UploadKeys(user_keys, form)),
                     [op |-> "upload", status |-> 200, summary |-> o.summary],
                     Calls(<<o>>, FALSE))

\* Mutant of start_interview: the interview is set up whether or not a resume summary
\* is stored.
start_interview_NoResumeCheck(s, data) ==
    IF \E f \in {"role", "difficulty", "model_id", "language"} : ~Has(data, f)
    THEN Out(s, Resp("start", 400))
    ELSE LET hinglish == IF Has(data, "hinglish_mode") THEN data["hinglish_mode"] ELSE FALSE
             s1 == Put(s, "role", data["role"])
             s2 == Put(s1, "difficulty", data["difficulty"])
             s3 == Put(s2, "model_id", data["model_id"])
             s4 == Put(s3, "language", IF hinglish THEN "hi" ELSE data["language"])
             s5 == Put(s4, "stt_mode",
                       IF Has(data, "stt_mode") THEN data["stt_mode"] ELSE "browser")
             s6 == Put(s5, "hinglish_mode", hinglish)
             s7 == Put(s6, "interview_history", <<>>)
             s8 == Put(s7, "question_count", 0)
             \* session.permanent = True is kept in the session under '_permanent'
             s9 == Put(s8, "_permanent", TRUE)
         IN Out(s9, [op |-> "start", status |-> 200,
                     config |-> [role |-> s9["role"], difficulty |-> s9["difficulty"],
                                 model |-> s9["model_id"], language |-> s9["language"]]])

\* POST /api/start-interview. data is the request's JSON object.
start_interview(s, data) ==
    IF \E f \in {"role", "difficulty", "model_id", "language"} : ~Has(data, f)
    THEN Out(s, Resp("start", 400))
    ELSE IF ~Has(s, "resume_summary")
    THEN Out(s, Resp("start", 400))
    ELSE LET hinglish == IF Has(data, "hinglish_mode") THEN data["hinglish_mode"] ELSE FALSE
             s1 == Put(s, "role", data["role"])
             s2 == Put(s1, "difficulty", data["difficulty"])
             s3 == Put(s2, "model_id", data["model_id"])
             s4 == Put(s3, "language", IF hinglish THEN "hi" ELSE data["language"])
             s5 == Put(s4, "stt_mode",
                       IF Has(data, "stt_mode") THEN data["stt_mode"] ELSE "browser")
             s6 == Put(s5, "hinglish_mode", hinglish)
             s7 == Put(s6, "interview_history", <<>>)
             s8 == Put(s7, "question_count", 0)
             \* session.permanent = True is kept in the session under '_permanent'
             s9 == Put(s8, "_permanent", TRUE)
         IN Out(s9, [op |-> "start", status |-> 200,
                     config |-> [role |-> s9["role"], difficulty |-> s9["difficulty"],
                                 model |-> s9["model_id"], language |-> s9["language"]]])

required_session_keys ==
    {"resume_summary", "role", "difficulty", "model_id", "language", "api_keys"}

\* Mutant of get_next_question: a question already pending is kept (setdefault).
get_next_question_KeepsPending(s, llm) ==
    IF \E k \in required_session_keys : ~Has(s, k)
    THEN Out(s, Resp("next_question", 400))
    ELSE IF llm.kind = "fail"
    THEN OutCalls(s, Resp("next_question", 500), Calls(<<llm>>, FALSE))
    ELSE LET s1 == IF Has(s, "current_question") THEN s
                   ELSE Put(s, "current_question", llm.text)
             s2 == Put(s1, "question_count",
                       (IF Has(s, "question_count") THEN s["question_count"] ELSE 0) + 1)
         IN OutCalls(s2, [op |-> "next_question", status |-> 200, question |-> llm.text,
                          question_number |-> s2["question_count"],
                          language |-> ResponseLanguage(s2)],
                     Calls(<<llm>>, FALSE))

\* Mutant of get_next_question: the counter is advanced before the model call, so a
\* failed call counts too.
get_next_question_CountsFailures(s, llm) ==
    IF \E k \in required_session_keys : ~Has(s, k)
    THEN Out(s, Resp("next_question", 400))
    ELSE LET s0 == Put(s, "question_count",
                       (IF Has(s, "question_count") THEN s["question_count"] ELSE 0) + 1)
         IN IF llm.kind = "fail"
            THEN OutCalls(s0, Resp("next_question", 500), Calls(<<llm>>, FALSE))
            ELSE LET s2 == Put(s0, "current_question", llm.text)
                 IN OutCalls(s2, [op |-> "next_question", status |-> 200,
                                  question |-> llm.text,
                                  question_number |-> s2["question_count"],
                                  language |-> ResponseLanguage(s2)],
                             Calls(<<llm>>, FALSE))

\* Mutant of get_next_question: when the model call fails a stock question is issued
\* in its place.
get_next_question_SubstituteQuestion(s, llm) ==
    IF \E k \in required_session_keys : ~Has(s, k)
    THEN Out(s, Resp("next_question", 400))
    ELSE LET question == IF llm.kind = "fail" THEN "q0" ELSE llm.text
             s1 == Put(s, "current_question", question)
             s2 == Put(s1, "question_count",
                       (IF Has(s, "question_count") THEN s["question_count"] ELSE 0) + 1)
         IN OutCalls(s2, [op |-> "next_question", status |-> 200, question |-> question,
                          question_number |-> s2["question_count"],
                          language |-> ResponseLanguage(s2)],
                     Calls(<<llm>>, FALSE))

\* POST /api/next-question. llm is what the question-generating model call comes to:
\* a failure, or the stripped text.
get_next_question(s, llm) ==
    IF \E k \in required_session_keys : ~Has(s, k)
    THEN Out(s, Resp("next_question", 400))
    ELSE IF llm.kind = "fail"
    THEN OutCalls(s, Resp("next_question", 500), Calls(<<llm>>, FALSE))
    ELSE LET s1 == Put(s, "current_question", llm.text)
             s2 == Put(s1, "question_count",
                       (IF Has(s, "question_count") THEN s["question_count"] ELSE 0) + 1)
         IN OutCalls(s2, [op |-> "next_question", status |-> 200, question |-> llm.text,
                          question_number |-> s2["question_count"],
                          language |-> ResponseLanguage(s2)],
                     Calls(<<llm>>, FALSE))

\* Mutant of NextDifficulty: the upper threshold taken inclusive (rating >= 7.0).
NextDifficulty_InclusiveUp(current_difficulty, rating) ==
    LET current_index == IndexOf(difficulty_order, current_difficulty)
    IN IF FloatGt(rating, 699)
       THEN (IF current_index < Len(difficulty_order)
             THEN difficulty_order[current_index + 1] ELSE current_difficulty)
       ELSE IF FloatLt(rating, 400)
       THEN (IF current_index > 1
             THEN difficulty_order[current_index - 1] ELSE current_difficulty)
       ELSE current_difficulty

\* The adaptive difficulty step (lines 351-369): ratings are in hundredths.
NextDifficulty(current_difficulty, rating) ==
    LET current_index == IndexOf(difficulty_order, current_difficulty)
    IN IF FloatGt(rating, 700)
       THEN (IF current_index < Len(difficulty_order)
             THEN difficulty_order[current_index + 1] ELSE current_difficulty)
       ELSE IF FloatLt(rating, 400)
       THEN (IF current_index > 1
             THEN difficulty_order[current_index - 1] ELSE current_difficulty)
       ELSE current_difficulty

\* Mutant of RecordTurn: the counter is made to follow the length of history.
RecordTurn_CountsTurns(s, entry) ==
    LET history == Append(IF Has(s, "interview_history") THEN s["interview_history"]
                          ELSE <<>>, entry)
    IN Put(Put(Put(s, "interview_history", history), "last_rating", entry.rating),
           "question_count", Len(history))

\* session['interview_history'].append(history_entry); session['last_rating'] = rating
RecordTurn(s, entry) ==
    Put(Put(s, "interview_history",
            Append(IF Has(s, "interview_history") THEN s["interview_history"] ELSE <<>>,
                   entry)),
        "last_rating", entry.rating)

\* POST /api/evaluate. data is the request's JSON object; o1, o2 are what the two
\* model calls of the agent's retry loop come to.
evaluate_answer(s, data, o1, o2) ==
    IF ~Has(data, "answer")
    THEN Out(s, Resp("evaluate", 400))
    ELSE IF ~Has(s, "current_question")
    THEN Out(s, Resp("evaluate", 400))
    ELSE IF \E k \in {"model_id", "api_keys", "language"} : ~Has(s, k)
    THEN Out(s, Resp("evaluate", 500))
    ELSE LET a == AgentEvaluate(data["answer"], o1, o2)
             did == Calls(a.attempts, a.fallback)
         IN IF a.kind = "raise"
            THEN OutCalls(s, Resp("evaluate", 500), did)
            ELSE LET evaluation == a.evaluation
                     history_entry ==
                        [question |-> s["current_question"],
                         answer |-> data["answer"],
                         rating |-> evaluation.rating,
                         strengths |-> evaluation.strengths,
                         improvements |-> evaluation.improvements,
                         missing_points |-> evaluation.missing_points]
                     s1 == RecordTurn(s, history_entry)
                 IN IF ~Has(s1, "difficulty") \/ ~InOrder(s1["difficulty"])
                    \* KeyError, or ValueError from difficulty_order.index: the
                    \* handler answers 500 and the session keeps the turn.
                    THEN OutCalls(s1, Resp("evaluate", 500), did)
                    ELSE LET new_difficulty ==
                                NextDifficulty(s1["difficulty"], evaluation.rating)
                             s2 == Put(s1, "difficulty", new_difficulty)
                         IN OutCalls(s2, [op |-> "evaluate", status |-> 200,
                                          evaluation |-> evaluation,
                                          updated_difficulty |-> new_difficulty,
                                          previous_difficulty |-> s1["difficulty"],
                                          total_questions |-> Len(s2["interview_history"]),
                                          language |-> ResponseLanguage(s2)],
                                     did)

\* sum(q['rating'] for q in history): NaN absorbs.
RECURSIVE SumRatings(_)
SumRatings(history) ==
    IF history = <<>> THEN 0
    ELSE LET rest == SumRatings(Tail(history))
         IN IF Head(history).rating = NaN \/ rest = NaN THEN NaN
            ELSE Head(history).rating + rest

\* Mutant of AvgRating: the rating of the last turn stands for the mean.
AvgRating_LastRating(history) == [num |-> history[Len(history)].rating, den |-> 1]

\* The quotient sum / len as the fraction num / den (num in hundredths).
AvgRating(history) == [num |-> SumRatings(history), den |-> Len(history)]

\* send_file(...) of the rendered report of session s, which is s_after by now. The
\* download name is computed from the role, and a role that is not a string has no
\* replace().
SendReport(s_after, s, llm) ==
    LET report_data ==
            [role |-> s["role"],
             difficulty |-> s["difficulty"],
             model |-> s["model_id"],
             language |-> s["language"],
             num_questions |-> Len(s["interview_history"]),
             history |-> s["interview_history"],
             overall_summary |-> llm.text,
             avg_rating |-> AvgRating(s["interview_history"])]
        \* report_data['role'].replace(' ', '_')
        replaced == [i \in 1..Len(s["role"].s) |->
                        IF s["role"].s[i] = WS THEN "_" ELSE s["role"].s[i]]
    IN IF s["role"].t # "str"
       THEN OutCalls(s_after, Resp("report", 500), Calls(<<llm>>, FALSE))
       ELSE OutCalls(s_after,
                     [op |-> "report", status |-> 200, report |-> report_data,
                      download_name |-> <<"interview_report_">> \o replaced \o <<".pdf">>],
                     Calls(<<llm>>, FALSE))

\* Mutant of generate_report: the session is not cleared after the report.
generate_report_KeepsSession(s, llm, render) ==
    IF ~Has(s, "interview_history") \/ s["interview_history"] = <<>>
    THEN Out(s, Resp("report", 400))
    ELSE IF \E k \in {"model_id", "api_keys", "language", "role"} : ~Has(s, k)
    THEN Out(s, Resp("report", 500))
    ELSE IF llm.kind = "fail"
    THEN OutCalls(s, Resp("report", 500), Calls(<<llm>>, FALSE))
    ELSE IF ~Has(s, "difficulty")
    THEN OutCalls(s, Resp("report", 500), Calls(<<llm>>, FALSE))
    ELSE IF render = "fail"
    THEN OutCalls(s, Resp("report", 500), Calls(<<llm>>, FALSE))
    ELSE SendReport(s, s, llm)

\* Mutant of generate_report: only an absent history is rejected, an empty one goes on
\* to the summary call.
generate_report_EmptyNotRejected(s, llm, render) ==
    IF ~Has(s, "interview_history")
    THEN Out(s, Resp("report", 400))
    ELSE IF \E k \in {"model_id", "api_keys", "language", "role"} : ~Has(s, k)
    THEN Out(s, Resp("report", 500))
    ELSE IF llm.kind = "fail"
    THEN OutCalls(s, Resp("report", 500), Calls(<<llm>>, FALSE))
    ELSE IF ~Has(s, "difficulty")
    THEN OutCalls(s, Resp("report", 500), Calls(<<llm>>, FALSE))
    ELSE IF render = "fail"
    THEN OutCalls(s, Resp("report", 500), Calls(<<llm>>, FALSE))
    ELSE SendReport(EmptySession, s, llm)

\* Mutant of generate_report: the session is cleared before the summary is asked for,
\* so a failed summary call loses the interview.
generate_report_ClearsFirst(s, llm, render) ==
    IF ~Has(s, "interview_history") \/ s["interview_history"] = <<>>
    THEN Out(s, Resp("report", 400))
    ELSE IF \E k \in {"model_id", "api_keys", "language", "role"} : ~Has(s, k)
    THEN Out(s, Resp("report", 500))
    ELSE IF llm.kind = "fail"
    THEN OutCalls(EmptySession, Resp("report", 500), Calls(<<llm>>, FALSE))
    ELSE IF ~Has(s, "difficulty")
    THEN OutCalls(EmptySession, Resp("report", 500), Calls(<<llm>>, FALSE))
    ELSE IF render = "fail"
    THEN OutCalls(EmptySession, Resp("report", 500), Calls(<<llm>>, FALSE))
    ELSE SendReport(EmptySession, s, llm)

\* GET /api/report. llm is what the overall-summary model call comes to, render what
\* generate_pdf_report comes to.
generate_report(s, llm, render) ==
    IF ~Has(s, "interview_history") \/ s["interview_history"] = <<>>
    THEN Out(s, Resp("report", 400))
    \* KeyError while the agent is built or the arguments of the summary call are read
    ELSE IF \E k \in {"model_id", "api_keys", "language", "role"} : ~Has(s, k)
    THEN Out(s, Resp("report", 500))
    \* generate_overall_summary re-raises what llm.invoke raised
    ELSE IF llm.kind = "fail"
    THEN OutCalls(s, Resp("report", 500), Calls(<<llm>>, FALSE))
    \* KeyError while report_data is built, the summary call made
    ELSE IF ~Has(s, "difficulty")
    THEN OutCalls(s, Resp("report", 500), Calls(<<llm>>, FALSE))
    ELSE IF render = "fail"
    THEN OutCalls(s, Resp("report", 500), Calls(<<llm>>, FALSE))
    \* session.clear(), then send_file
    ELSE SendReport(EmptySession, s, llm)

\* Mutant of end_session: only the interview is dropped, the resume and keys are kept.
end_session_KeepsResume(s) ==
    Out([k \in (DOMAIN s) \cap {"resume_summary", "api_keys"} |-> s[k]],
        Resp("end_session", 200))

\* Mutant of end_session: the pending question survives the clearing.
end_session_KeepsPending(s) ==
    Out(IF Has(s, "current_question")
        THEN [k \in {"current_question"} |-> s[k]]
        ELSE EmptySession,
        Resp("end_session", 200))

\* POST /api/end-session: session.clear()
end_session(s) == Out(EmptySession, Resp("end_session", 200))

\* GET /api/health. bool(session.get('resume_summary')): a summary is stored and it
\* is not the empty string.
health_check(s, user_keys) ==
    Out(s, [op |-> "health", status |-> 200,
            session_active |-> Has(s, "resume_summary") /\ s["resume_summary"] # "",
            user_keys_required |-> user_keys])

\* POST /api/transcribe: reads session.get('language') only.
transcribe_audio(s, o) ==
    CASE o = "no_audio" -> Out(s, Resp("transcribe", 400))
      [] o = "no_speech" -> Out(s, Resp("transcribe", 400))
      [] o = "fail" -> Out(s, Resp("transcribe", 500))
      [] o = "ok" -> Out(s, Resp("transcribe", 200))

\* ------------------------------------------------- what the requests carry
UploadOutcomes ==
    {[kind |-> k] : k \in {"no_file", "no_filename", "bad_type", "short_text",
                           "extract_fail", "llm_fail"}}
    \cup {[kind |-> "ok", summary |-> x] : x \in Summaries}

\* The JSON of a start-interview request: complete (with or without hinglish_mode),
\* or lacking a required field.
StartData(role, difficulty, model_id, language) ==
    [role |-> role, difficulty |-> difficulty, model_id |-> model_id, language |-> language]

StartInputs ==
    {StartData(r, d, m, "en") : r \in Roles, d \in DifficultyInputs, m \in Models}
    \cup {[role |-> r, model_id |-> m, language |-> "en"] : r \in Roles, m \in Models}

QuestionOutcomes == {[kind |-> "fail"]} \cup {[kind |-> "text", text |-> q] : q \in Questions}

EvaluateInputs == {[answer |-> a] : a \in Answers} \cup {EmptySession}

\* The numbers the model puts in the rating field (thousandths): one that raises the
\* difficulty and one that lowers it (the fallback's 5.00 keeps it).
AttemptOutcomes ==
    {[kind |-> "invoke_error"], [kind |-> "invoke_value_error"], [kind |-> "bad_json"]}
    \cup {[kind |-> "json", value |-> ModelObject(rv)] : rv \in {Num(8200), Num(3000)}}

\* The second model call is made only when the first attempt neither returned nor
\* escaped the loop.
SecondOutcomes(o1) ==
    IF AttemptClass(o1, FALSE) \in {"parse", "other"} THEN AttemptOutcomes ELSE {o1}

SummaryOutcomes == {[kind |-> "fail"], [kind |-> "text", text |-> "overall"]}

\* -------------------------------------------------------------- the system
Init ==
    /\ session = EmptySession
    /\ resp = Resp("none", 0)
    /\ issued = 0
    /\ closed = "no"
    /\ agent = NoCalls
    /\ peer = EmptySession
    /\ solo = <<EmptySession, EmptySession>>
    /\ memory = <<>>
    /\ answered = 0
    /\ waiting = EmptyBag
    /\ loaded = EmptySession

\* ------------------------------------------------------ requests in flight
\* Flask loads the session from the cookie a request comes with; before_request marks
\* it modified (app.py 467-472), so that every response, whatever its status, carries
\* the session its handler leaves, and the client keeps the cookie of the response it
\* received last. A handler that waits in a call to the model (upload, next-question,
\* evaluate, report) or to the speech service (transcribe) goes on with the session
\* it loaded, whatever was served to the client in the meantime.
\* At most this many requests of the client wait at a time.
MaxWaiting == 2

\* The response r = [session, resp, agent] of a handler that had loaded session s
\* reaches the client.
ServeRequest(s, r) ==
    /\ session' = r.session
    /\ resp' = r.resp
    /\ loaded' = s
    /\ agent' = r.agent
    /\ UNCHANGED <<peer, solo, answered>>
    /\ issued' = IF r.resp.op = "start" /\ r.resp.status = 200 THEN 0
                 ELSE IF r.resp.op = "next_question" /\ r.resp.status = 200 THEN issued + 1
                 ELSE IF r.session = EmptySession THEN 0
                 ELSE issued
    /\ closed' = IF r.resp.op = "report" /\ r.resp.status = 200 THEN "report"
                 ELSE IF r.resp.op = "start" /\ r.resp.status = 200 THEN "no"
                 ELSE IF r.resp.op = "end_session" /\ Has(session, "interview_history")
                      THEN "end"
                 ELSE closed

\* A request answered without a call to wait in: it loads the client's session and
\* its response is the next the client receives.
Serve(r) == ServeRequest(session, r) /\ UNCHANGED <<memory, waiting>>

\* A request to endpoint op arrives with the client's cookie and its handler gets as
\* far as its call.
Arrives(op, data) ==
    /\ BagCardinality(waiting) < MaxWaiting
    /\ waiting' = waiting (+) SetToBag({[op |-> op, session |-> session, data |-> data]})
    /\ resp' = [op |-> "request", status |-> 0, endpoint |-> op]
    /\ agent' = NoCalls
    /\ UNCHANGED <<session, loaded, issued, closed, peer, solo, memory, answered>>

\* The call of the waiting request w is over and its response r reaches the client.
Returns(w, r) ==
    /\ ServeRequest(w.session, r)
    /\ waiting' = waiting (-) SetToBag({w})
    /\ UNCHANGED memory

\* The waiting requests to endpoint op.
Waiting(op) == {w \in BagToSet(waiting) : w.op = op}

\* upload_resume up to agent.summarize_resume: a PDF came and its text was extracted.
UploadWaits == Arrives("upload", EmptySession)

UploadReturns ==
    \E w \in Waiting("upload"), o \in UploadOutcomes :
        /\ o.kind \in {"llm_fail", "ok"}
        /\ Returns(w, upload_resume(w.session, USE_USER_API_KEYS, w.data, o))

UploadResume ==
    \/ \E o \in UploadOutcomes :
          /\ o.kind \notin {"llm_fail", "ok"}
          /\ Serve(upload_resume(session, USE_USER_API_KEYS, EmptySession, o))
    \/ UploadWaits
    \/ UploadReturns

StartInterview == \E data \in StartInputs : Serve(start_interview(session, data))

\* get_next_question up to agent.generate_question: the session keys are there.
NextQuestionWaits ==
    /\ \A k \in required_session_keys : Has(session, k)
    /\ issued < MaxQuestions
    /\ Has(session, "question_count") => session["question_count"] < MaxQuestions
    /\ Arrives("next_question", EmptySession)

NextQuestionReturns ==
    \E w \in Waiting("next_question"), llm \in QuestionOutcomes :
        Returns(w, get_next_question(w.session, llm))

NextQuestion ==
    \/ /\ \E k \in required_session_keys : ~Has(session, k)
       /\ Serve(get_next_question(session, [kind |-> "fail"]))
    \/ NextQuestionWaits
    \/ NextQuestionReturns

\* The session lets a request with an answer through to agent.evaluate_answer.
ReachesEvaluation(s) ==
    /\ Has(s, "current_question")
    /\ \A k \in {"model_id", "api_keys", "language"} : Has(s, k)

EvaluateWaits ==
    /\ ReachesEvaluation(session)
    /\ Has(session, "interview_history") => Len(session["interview_history"]) < MaxTurns
    /\ \E data \in EvaluateInputs : Has(data, "answer") /\ Arrives("evaluate", data)

EvaluateReturns ==
    \E w \in Waiting("evaluate"), o1 \in AttemptOutcomes :
        \E o2 \in SecondOutcomes(o1) :
            Returns(w, evaluate_answer(w.session, w.data, o1, o2))

EvaluateAnswer ==
    \/ \E data \in EvaluateInputs :
          /\ ~Has(data, "answer") \/ ~ReachesEvaluation(session)
          /\ Serve(evaluate_answer(session, data, [kind |-> "bad_json"],
                                   [kind |-> "bad_json"]))
    \/ EvaluateWaits
    \/ EvaluateReturns

\* The session lets a report request through to agent.generate_overall_summary.
ReachesSummary(s) ==
    /\ Has(s, "interview_history")
    /\ s["interview_history"] # <<>>
    /\ \A k \in {"model_id", "api_keys", "language", "role"} : Has(s, k)

ReportWaits == ReachesSummary(session) /\ Arrives("report", EmptySession)

ReportReturns ==
    \E w \in Waiting("report"), llm \in SummaryOutcomes, render \in {"ok", "fail"} :
        Returns(w, generate_report(w.session, llm, render))

GenerateReport ==
    \/ /\ ~ReachesSummary(session)
       /\ Serve(generate_report(session, [kind |-> "fail"], "ok"))
    \/ ReportWaits
    \/ ReportReturns

EndSession == Serve(end_session(session))

HealthCheck == Serve(health_check(session, USE_USER_API_KEYS))

\* transcribe_audio: without an audio file it answers at once; with one it waits in
\* client.recognize and answers from the session it loaded.
TranscribeAudio ==
    \/ Serve(transcribe_audio(session, "no_audio"))
    \/ Arrives("transcribe", EmptySession)
    \/ \E w \in Waiting("transcribe"), o \in {"no_speech", "fail", "ok"} :
          Returns(w, transcribe_audio(w.session, o))

\* The client sends a request only when it has received the response to the one
\* before: a step either starts with no request waiting or is the response to the one
\* that waits.
OneAtATime == waiting = EmptyBag \/ waiting' = EmptyBag

Next ==
    \/ UploadResume /\ OneAtATime
    \/ StartInterview /\ OneAtATime
    \/ NextQuestion /\ OneAtATime
    \/ EvaluateAnswer /\ OneAtATime
    \/ GenerateReport /\ OneAtATime
    \/ EndSession /\ OneAtATime
    \/ HealthCheck /\ OneAtATime
    \/ TranscribeAudio /\ OneAtATime

Spec == Init /\ [][Next]_vars

\* ------------------------------------------- the difficulty step on its own
\* A started session with a pending question and difficulty d, as upload,
\* start-interview and next-question leave it; loaded is the started session that
\* the next-question handler loaded.
AwaitingAnswer(d) ==
    LET s1 == upload_resume(EmptySession, USE_USER_API_KEYS, EmptySession,
                            [kind |-> "ok", summary |-> "cv1"]).session
        s2 == start_interview(s1, StartData(BackendDeveloper, d, "gemini-2.5-flash",
                                            "en")).session
        r == get_next_question(s2, [kind |-> "text", text |-> "q1"])
    IN [session |-> r.session, resp |-> r.resp, agent |-> r.agent, loaded |-> s2]

\* The rating field takes every multiple of 0.01 from 0.00 to MaxRatingStep / 100.
MaxRatingStep == 1100

RatingGrid == {Num(10 * i) : i \in 0..MaxRatingStep} \cup {[t |-> "nan", v |-> 0]}

InitDifficulty ==
    \E d \in {"Easy", "Medium", "Hard"} :
        /\ session = AwaitingAnswer(d).session
        /\ resp = AwaitingAnswer(d).resp
        /\ issued = 1
        /\ closed = "no"
        /\ agent = AwaitingAnswer(d).agent
        /\ peer = EmptySession
        /\ solo = <<EmptySession, EmptySession>>
        /\ memory = <<>>
        /\ answered = 0
        /\ waiting = EmptyBag
        /\ loaded = AwaitingAnswer(d).loaded

\* The first answer of the interview is sent, no other request waiting.
FirstAnswer(answers) ==
    /\ waiting = EmptyBag
    /\ session["interview_history"] = <<>>
    /\ \E a \in answers : Arrives("evaluate", [answer |-> a])

\* It is scored by the model.
EvaluateScored ==
    \E w \in Waiting("evaluate"), rv \in RatingGrid :
        LET o == [kind |-> "json", value |-> ModelObject(rv)]
        IN Returns(w, evaluate_answer(w.session, w.data, o, o))

\* It is scored by the fallback.
EvaluateFallback ==
    \E w \in Waiting("evaluate") :
        Returns(w, evaluate_answer(w.session, w.data, [kind |-> "bad_json"],
                                   [kind |-> "bad_json"]))

NextDifficultyStep == FirstAnswer(Answers) \/ EvaluateScored \/ EvaluateFallback

SpecDifficulty == InitDifficulty /\ [][NextDifficultyStep]_vars

\* ------------------------------------------------- the report on its own
\* Interviews of up to MaxReportTurns turns, each answer scored by the model with
\* 8.2, 3.0 or 5.0, and a report asked for at any point.
MaxReportTurns == 3

UploadOnce ==
    \/ ~Has(session, "resume_summary") /\ UploadWaits
    \/ \E w \in Waiting("upload") :
          Returns(w, upload_resume(w.session, USE_USER_API_KEYS, w.data,
                                   [kind |-> "ok", summary |-> "cv1"]))

\* start-interview stores data['role'] as it comes: a string, or any other JSON value
\* (here the number 123).
StartAt ==
    \E d \in {"Easy", "Medium", "Hard"}, role \in Roles \cup {Num(123000)} :
        Serve(start_interview(session, StartData(role, d, "gemini-2.5-flash", "en")))

\* The next question is asked once the pending one is answered; the model call may
\* fail.
AskQuestion ==
    \/ /\ Has(session, "interview_history")
       /\ issued = Len(session["interview_history"])
       /\ issued < MaxReportTurns
       /\ Arrives("next_question", EmptySession)
    \/ \E w \in Waiting("next_question"),
          llm \in {[kind |-> "fail"], [kind |-> "text", text |-> "q1"]} :
          Returns(w, get_next_question(w.session, llm))

AnswerScored ==
    \/ /\ Has(session, "interview_history")
       /\ issued = Len(session["interview_history"]) + 1
       /\ Arrives("evaluate", [answer |-> Words15])
    \/ \E w \in Waiting("evaluate"), rv \in {Num(8200), Num(3000), Num(5000)} :
          LET o == [kind |-> "json", value |-> ModelObject(rv)]
          IN Returns(w, evaluate_answer(w.session, w.data, o, o))

ReportStep ==
    \/ UploadOnce /\ OneAtATime
    \/ StartAt /\ OneAtATime
    \/ AskQuestion /\ OneAtATime
    \/ AnswerScored /\ OneAtATime
    \/ GenerateReport /\ OneAtATime

SpecReport == Init /\ [][ReportStep]_vars

\* ------------------------------------------- the evaluation loop on its own
\* The first answer of an interview, for every answer of up to MaxAnswerWords words,
\* with or without a don't-know phrase in front, and for everything the two model
\* calls can come to.
MaxAnswerWords == 31

PlainAnswer(n) == [i \in 1..n |-> "word"]

AgentAnswers ==
    {PlainAnswer(n) : n \in 0..MaxAnswerWords}
    \cup {<<"Not", "Sure">> \o PlainAnswer(n) : n \in 0..MaxAnswerWords}
    \cup {<<"IDK">>, <<"i", "don't", "know", "this">>}

\* The objects the model may return: ratings in range (of 2 decimals, and of 3 decimals
\* ending in 5: 8.215 and 8.205, whose doubles lie under and over the literal, and
\* 1.125, whose double is exact), out of range, not a number, infinite, null, a word;
\* an object without strengths; an object without missing_points.
AgentObjects ==
    {ModelObject(rv) : rv \in {Num(8200), Num(8215), Num(8205), Num(1125),
                               Num(12000), Num(0), [t |-> "nan", v |-> 0],
                               [t |-> "inf", v |-> 0], [t |-> "ninf", v |-> 0],
                               [t |-> "null", v |-> 0], [t |-> "str", v |-> 0]}}
    \cup {[rating |-> Num(8200), improvements |-> "depth", missing_points |-> "testing"],
          [rating |-> Num(8200), strengths |-> "clear", improvements |-> "depth"]}

\* JSON values that are not objects: a number, true or null; a list of numbers; a
\* list of the three required names; a string that names missing_points.
AgentValues ==
    {[kind |-> "json_value", type |-> "scalar", holds |-> {}],
     [kind |-> "json_value", type |-> "list", holds |-> {}],
     [kind |-> "json_value", type |-> "list",
      holds |-> {"rating", "strengths", "improvements"}],
     [kind |-> "json_value", type |-> "string", holds |-> {"missing_points"}]}

AgentOutcomes ==
    {[kind |-> "invoke_error"], [kind |-> "invoke_value_error"], [kind |-> "bad_json"]}
    \cup AgentValues
    \cup {[kind |-> "json", value |-> obj] : obj \in AgentObjects}

SecondAgentOutcomes(o1) ==
    IF AttemptClass(o1, FALSE) \in {"parse", "other"} THEN AgentOutcomes ELSE {o1}

EvaluateFirstAnswer ==
    \/ FirstAnswer(AgentAnswers)
    \/ \E w \in Waiting("evaluate"), o1 \in AgentOutcomes :
          \E o2 \in SecondAgentOutcomes(o1) :
              Returns(w, evaluate_answer(w.session, w.data, o1, o2))

SpecAgent == InitDifficulty /\ [][EvaluateFirstAnswer]_vars

\* ---------------------------------------------- setting up an interview
\* Uploads, start-interview and next-question requests in any order and with every
\* outcome, and end-session; no answer is given.
\* An upload to a deployment that takes the user's keys, the form holding both keys,
\* one, or none; the summarising call may come to a blank text (content.strip() of
\* blanks).
UploadWithKeys ==
    \/ \E form \in {[openrouter_key |-> "u-or", gemini_key |-> "u-gem"],
                     [openrouter_key |-> "v-or"], EmptySession} :
          Arrives("upload", form)
    \/ \E w \in Waiting("upload"), x \in {"cv1", ""} :
          Returns(w, upload_resume(w.session, TRUE, w.data, [kind |-> "ok", summary |-> x]))

SetupStep ==
    \/ UploadResume /\ OneAtATime
    \/ UploadWithKeys /\ OneAtATime
    \/ StartInterview /\ OneAtATime
    \/ NextQuestion /\ OneAtATime
    \/ EndSession /\ OneAtATime
    \/ Serve(health_check(session, TRUE)) /\ OneAtATime

SpecSetup == Init /\ [][SetupStep]_vars

\* ------------------------------------------- the texts the model returns
\* The first answer of an interview, where both model calls return the JSON text of a
\* well-formed record (json.dumps: members separated by ', ', names and values by
\* ': ', a double quote inside a string escaped). A record's rating is in
\* hundredths, its strengths and improvements are the tokens of the strings, and its
\* missing_points is a string or a list of strings.
RecordStrings ==
    {<<"clear">>, <<"uses", WS, Fence, WS, "fences">>, <<Fence, "json">>,
     <<"and", WS, "so", WS, "on", Ellipsis>>, <<"{", Quote, "}">>}

RecordMissingPoints ==
    {Str(<<"testing">>), Str(<<Ellipsis>>), Str(<<Fence>>),
     [t |-> "list", items |-> <<>>],
     [t |-> "list", items |-> <<Str(<<"x">>), Str(<<"y", Ellipsis>>)>>]}

TextRecords ==
    {[rating |-> r, strengths |-> s, improvements |-> i, missing_points |-> m] :
        r \in {100, 555, 820, 1000}, s \in RecordStrings,
        i \in {<<"depth">>, <<"depth", Ellipsis>>}, m \in RecordMissingPoints}

Escape(tok) == IF tok = Quote THEN EscQuote ELSE tok

DumpString(s) == <<Quote>> \o [i \in 1..Len(s) |-> Escape(s[i])] \o <<Quote>>

RECURSIVE DumpItems(_)
DumpItems(items) ==
    IF items = <<>> THEN <<>>
    ELSE IF Len(items) = 1 THEN DumpString(items[1].s)
    ELSE DumpString(items[1].s) \o <<",", WS>> \o DumpItems(Tail(items))

DumpValue(v) ==
    IF v.t = "str" THEN DumpString(v.s) ELSE <<"[">> \o DumpItems(v.items) \o <<"]">>

\* json.dumps of the record.
Serialize(rec) ==
    <<"{">> \o DumpString(<<"rating">>) \o <<":", WS>>
    \o StrTokens(Num(10 * rec.rating)) \o <<",", WS>>
    \o DumpString(<<"strengths">>) \o <<":", WS>> \o DumpString(rec.strengths)
    \o <<",", WS>>
    \o DumpString(<<"improvements">>) \o <<":", WS>> \o DumpString(rec.improvements)
    \o <<",", WS>>
    \o DumpString(<<"missing_points">>) \o <<":", WS>> \o DumpValue(rec.missing_points)
    \o <<"}">>

EvaluateText ==
    \/ FirstAnswer({Words15})
    \/ \E w \in Waiting("evaluate"), rec \in TextRecords :
          Returns(w, evaluate_answer(w.session, w.data, Interpret(Serialize(rec)),
                                     Interpret(Serialize(rec))))

SpecText == InitDifficulty /\ [][EvaluateText]_vars

\* --------------------------------------------------- truncated texts
\* The first answer of an interview, where both model calls return the JSON text of a
\* record cut off after any number of its tokens, as it is or with an ellipsis at the
\* end.
TruncatedRecords ==
    {[rating |-> 820, strengths |-> s, improvements |-> i, missing_points |-> m] :
        s \in RecordStrings, i \in {<<"depth">>, <<"use", WS, "{", "}">>},
        m \in {Str(<<"testing">>),
               [t |-> "list", items |-> <<Str(<<"x">>), Str(<<"y", Ellipsis>>)>>]}}

TruncatedTexts ==
    UNION {{SubSeq(Serialize(rec), 1, n) \o tail :
                n \in 0..Len(Serialize(rec)), tail \in {<<>>, <<Ellipsis>>}} :
           rec \in TruncatedRecords}

EvaluateTruncated ==
    \/ FirstAnswer({Words15})
    \/ \E w \in Waiting("evaluate"), text \in TruncatedTexts :
          Returns(w, evaluate_answer(w.session, w.data, Interpret(text), Interpret(text)))

SpecRepair == InitDifficulty /\ [][EvaluateTruncated]_vars

\* ------------------------------------------------------- two clients
\* Two clients, each with its own session cookie: session is the first client's
\* session and peer the second's. A handler runs on flask.session, the session of
\* the cookie its request carries; the module keeps no other data between requests.
\* solo[c] is what the requests of client c come to on their own, kept by Alone from
\* the client's requests and their outcomes only.
MaxPeerTurns == 2

\* What a client's interview is after one more of its requests, told from what the
\* interview was (book), the request (op, data) and the outcome o of its model call,
\* by the endpoints' contracts: upload stores the summary; start-interview needs the
\* summary and sets the difficulty, an empty history and the counter 0; next-question
\* needs the configuration and, when the model returns a text, makes it the pending
\* question and adds 1 to the counter; evaluate needs a pending question, appends the
\* turn and moves the difficulty one level up for a rating above 7.0 and one level
\* down for one below 4.0 (the answer idk is scored 1.50 by the fallback);
\* end-session leaves nothing.
Alone(book, op, data, o) ==
    CASE op = "upload" -> Put(book, "resume_summary", o.summary)
      [] op = "start" ->
            IF ~Has(book, "resume_summary") THEN book
            ELSE Put(Put(Put(book, "difficulty", data.difficulty),
                         "interview_history", <<>>), "question_count", 0)
      [] op = "next_question" ->
            IF ~Has(book, "difficulty") \/ o.kind # "text" THEN book
            ELSE Put(Put(book, "current_question", o.text),
                     "question_count", book["question_count"] + 1)
      [] op = "evaluate" ->
            IF ~Has(book, "current_question") THEN book
            ELSE LET turn == IF o.kind = "json"
                             THEN [question |-> book["current_question"],
                                   answer |-> data.answer, rating |-> 820,
                                   strengths |-> "clear", improvements |-> "depth",
                                   missing_points |-> "testing"]
                             ELSE [question |-> book["current_question"],
                                   answer |-> data.answer, rating |-> 150,
                                   strengths |-> "Candidate was honest about not knowing",
                                   improvements |->
                                       "Study the topic and provide a substantive answer",
                                   missing_points |->
                                       "Unable to parse detailed feedback from evaluation system"]
                     up == [Easy |-> "Medium", Medium |-> "Hard", Hard |-> "Hard"]
                     down == [Easy |-> "Easy", Medium |-> "Easy", Hard |-> "Medium"]
                     d == book["difficulty"]
                 IN Put(Put(book, "interview_history",
                            Append(book["interview_history"], turn)),
                        "difficulty",
                        IF turn.rating > 700 THEN up[d]
                        ELSE IF turn.rating < 400 THEN down[d] ELSE d)
      [] op = "end_session" -> EmptySession

\* Mutant of ClientSession: the handlers keep the interview in one dictionary of the
\* module, shared by every request, and not in flask.session.
ClientSession_Shared(c) == session

\* flask.session in a request of client c.
ClientSession(c) == IF c = 1 THEN session ELSE peer

\* A response reaches client c: s is the session its handler loaded from the client's
\* cookie, r what the handler made of it, alone what the client's requests come to
\* on their own with this one, left the requests that wait from then on. The
\* response is tagged with the client served and the client served before.
ServeClient(c, s, r, alone, left) ==
    /\ session' = IF c = 1 THEN r.session ELSE session
    /\ peer' = IF c = 2 THEN r.session ELSE peer
    /\ solo' = [solo EXCEPT ![c] = alone]
    /\ resp' = Put(Put(r.resp, "client", c), "before",
                 IF Has(resp, "client") THEN resp["client"] ELSE 0)
    /\ agent' = r.agent
    /\ waiting' = left
    /\ loaded' = s
    /\ UNCHANGED <<issued, closed, memory, answered>>

\* Client c, with none of its requests waiting, sends one whose handler gets as far
\* as its call; the other client's request may be waiting.
ClientSends(c, op, data) ==
    /\ \A w \in BagToSet(waiting) : w.client # c
    /\ waiting' = waiting (+) SetToBag({[op |-> op, session |-> ClientSession(c),
                                         data |-> data, client |-> c]})
    /\ UNCHANGED <<session, resp, loaded, issued, closed, agent, peer, solo, memory,
                   answered>>

\* Each client puts its own keys in its upload form, and the deployment takes the
\* users' keys: the two sessions hold different keys.
ClientUpload(c) ==
    \/ ClientSends(c, "upload",
                   <<[openrouter_key |-> "u-or", gemini_key |-> "u-gem"],
                     [openrouter_key |-> "v-or"]>>[c])
    \/ \E w \in {x \in Waiting("upload") : x.client = c} :
          LET o == [kind |-> "ok", summary |-> <<"cv1", "cv2">>[c]]
          IN ServeClient(c, w.session, upload_resume(w.session, TRUE, w.data, o),
                         Alone(solo[c], "upload", w.data, o),
                         waiting (-) SetToBag({w}))

ClientStart(c) ==
    /\ \A w \in BagToSet(waiting) : w.client # c
    /\ \E d \in {"Easy", "Hard"} :
          LET data == StartData(BackendDeveloper, d, "gemini-2.5-flash", "en")
          IN ServeClient(c, ClientSession(c), start_interview(ClientSession(c), data),
                         Alone(solo[c], "start", data, EmptySession), waiting)

ClientQuestion(c) ==
    \/ /\ \A w \in BagToSet(waiting) : w.client # c
       /\ \E k \in required_session_keys : ~Has(ClientSession(c), k)
       /\ ServeClient(c, ClientSession(c),
                      get_next_question(ClientSession(c), [kind |-> "fail"]),
                      Alone(solo[c], "next_question", EmptySession, [kind |-> "fail"]),
                      waiting)
    \/ /\ \A k \in required_session_keys : Has(ClientSession(c), k)
       /\ Has(ClientSession(c), "question_count") =>
               ClientSession(c)["question_count"] < MaxPeerTurns
       /\ ClientSends(c, "next_question", EmptySession)
    \/ \E w \in {x \in Waiting("next_question") : x.client = c},
          llm \in {[kind |-> "fail"], [kind |-> "text", text |-> <<"q1", "q2">>[c]]} :
          ServeClient(c, w.session, get_next_question(w.session, llm),
                      Alone(solo[c], "next_question", w.data, llm),
                      waiting (-) SetToBag({w}))

ClientEvaluate(c) ==
    \/ /\ \A w \in BagToSet(waiting) : w.client # c
       /\ ~ReachesEvaluation(ClientSession(c))
       /\ LET o == [kind |-> "bad_json"]
          IN ServeClient(c, ClientSession(c),
                         evaluate_answer(ClientSession(c), [answer |-> <<"idk">>], o, o),
                         Alone(solo[c], "evaluate", [answer |-> <<"idk">>], o), waiting)
    \/ /\ ReachesEvaluation(ClientSession(c))
       /\ Has(ClientSession(c), "interview_history") =>
               Len(ClientSession(c)["interview_history"]) < MaxPeerTurns
       /\ ClientSends(c, "evaluate", [answer |-> <<"idk">>])
    \/ \E w \in {x \in Waiting("evaluate") : x.client = c},
          o1 \in {[kind |-> "bad_json"], [kind |-> "json", value |-> ModelObject(Num(8200))]} :
          ServeClient(c, w.session, evaluate_answer(w.session, w.data, o1, o1),
                      Alone(solo[c], "evaluate", w.data, o1), waiting (-) SetToBag({w}))

ClientEnd(c) ==
    /\ \A w \in BagToSet(waiting) : w.client # c
    /\ ServeClient(c, ClientSession(c), end_session(ClientSession(c)),
                   Alone(solo[c], "end_session", EmptySession, EmptySession), waiting)

TwoClientsStep ==
    \E c \in {1, 2} :
        \/ ClientUpload(c)
        \/ ClientStart(c)
        \/ ClientQuestion(c)
        \/ ClientEvaluate(c)
        \/ ClientEnd(c)

SpecTwo == Init /\ [][TwoClientsStep]_vars

\* ------------------------------------------------ one long-lived agent
\* One InterviewAgent asked for up to MaxAgentTurns questions, each answered before
\* the next is asked: issued counts the questions it returned, answered the
\* evaluations it returned, and the n-th question's text is the number n.
MaxAgentTurns == 12

MemoryOutcomes ==
    {[kind |-> "invoke_error"], [kind |-> "bad_json"],
     [kind |-> "json", value |-> ModelObject(Num(8200))]}

SecondMemoryOutcomes(o1) ==
    IF AttemptClass(o1, FALSE) \in {"parse", "other"} THEN MemoryOutcomes ELSE {o1}

GenerateOnAgent ==
    /\ issued = answered
    /\ issued < MaxAgentTurns
    /\ \E llm \in {[kind |-> "fail"], [kind |-> "text", text |-> issued + 1]} :
          LET r == generate_question(memory, llm)
          IN /\ memory' = r.messages
             /\ issued' = IF r.kind = "return" THEN issued + 1 ELSE issued
             /\ resp' = [op |-> "generate_question", kind |-> r.kind]
             /\ agent' = Calls(<<llm>>, FALSE)
    /\ UNCHANGED <<session, loaded, closed, peer, solo, answered, waiting>>

EvaluateOnAgent ==
    /\ issued > answered
    /\ \E o1 \in MemoryOutcomes : \E o2 \in SecondMemoryOutcomes(o1) :
          LET r == AgentEvaluate(<<"idk">>, o1, o2)
          IN /\ memory' = EvaluationMessages(memory, r)
             /\ answered' = IF r.kind = "return" THEN answered + 1 ELSE answered
             /\ resp' = [op |-> "evaluate_answer", kind |-> r.kind]
             /\ agent' = Calls(r.attempts, r.fallback)
    /\ UNCHANGED <<session, loaded, closed, peer, solo, issued, waiting>>

MemoryStep == GenerateOnAgent \/ EvaluateOnAgent

SpecMemory == Init /\ [][MemoryStep]_vars

\* ------------------------------------------------- one agent per request
\* get_next_question and evaluate_answer build their InterviewAgent in the request
\* (app.py 221 and 320), and its constructor gives it a new ConversationBufferMemory.
\* Here memory is the memory of the agent that served the last of these requests, as
\* the request left it.
MaxFreshTurns == 3

\* Mutant of RequestAgentMemory: the agent of the previous request serves again.
RequestAgentMemory_Reused(previous) == previous

\* The memory of the agent a request builds, previous being the memory the agent of
\* the request before ended with.
RequestAgentMemory(previous) == <<>>

FreshQuestion ==
    \/ /\ Has(session, "interview_history")
       /\ issued < MaxFreshTurns
       /\ Arrives("next_question", EmptySession)
    \/ \E w \in Waiting("next_question"),
          llm \in {[kind |-> "fail"], [kind |-> "text", text |-> "q1"],
                   [kind |-> "text", text |-> "q2"]} :
          /\ ServeRequest(w.session, get_next_question(w.session, llm))
          /\ memory' = generate_question(RequestAgentMemory(memory), llm).messages
          /\ waiting' = waiting (-) SetToBag({w})

FreshEvaluate ==
    \/ /\ Has(session, "current_question")
       /\ Len(session["interview_history"]) < MaxFreshTurns
       /\ Arrives("evaluate", [answer |-> <<"idk">>])
    \/ \E w \in Waiting("evaluate"), o1 \in MemoryOutcomes :
          \E o2 \in SecondMemoryOutcomes(o1) :
              /\ ServeRequest(w.session, evaluate_answer(w.session, w.data, o1, o2))
              /\ memory' = EvaluationMessages(RequestAgentMemory(memory),
                                              AgentEvaluate(w.data["answer"], o1, o2))
              /\ waiting' = waiting (-) SetToBag({w})

FreshStep ==
    \/ UploadOnce /\ OneAtATime
    \/ StartAt /\ OneAtATime
    \/ FreshQuestion /\ OneAtATime
    \/ FreshEvaluate /\ OneAtATime

SpecFresh == Init /\ [][FreshStep]_vars

\* ------------------------------------ requests of one client that overlap
\* A client that does not wait for a response before it sends the next request: up
\* to MaxWaiting of its requests wait at a time, each with the session of the cookie
\* it came with, and start-interview and end-session are answered while they wait.
\* Two next-question requests that came with the same cookie are both numbered 1; an
\* upload that returns after a start-interview brings back the session without the
\* interview; an evaluation that returns after end-session brings the session back.
OverlapStep ==
    \/ UploadWaits
    \/ \E w \in Waiting("upload") :
          Returns(w, upload_resume(w.session, USE_USER_API_KEYS, w.data,
                                   [kind |-> "ok", summary |-> "cv1"]))
    \/ Serve(start_interview(session, StartData(BackendDeveloper, "Medium",
                                                "gemini-2.5-flash", "en")))
    \/ NextQuestionWaits
    \/ \E w \in Waiting("next_question"),
          llm \in {[kind |-> "fail"], [kind |-> "text", text |-> "q1"]} :
          Returns(w, get_next_question(w.session, llm))
    \/ /\ ReachesEvaluation(session)
       /\ Len(session["interview_history"]) < MaxTurns
       /\ Arrives("evaluate", [answer |-> Words15])
    \/ \E w \in Waiting("evaluate"),
          o \in {[kind |-> "invoke_error"],
                 [kind |-> "json", value |-> ModelObject(Num(8200))]} :
          Returns(w, evaluate_answer(w.session, w.data, o, o))
    \/ ReportWaits
    \/ \E w \in Waiting("report"), llm \in SummaryOutcomes :
          Returns(w, generate_report(w.session, llm, "ok"))
    \/ EndSession

SpecOverlap == Init /\ [][OverlapStep]_vars

\* ------------------------------------------- field validation on its own
\* The first answer of an interview, where the model returns objects holding any
\* subset of the four fields, or fails, or returns one of these texts:
\*   {"rating": 8.2, "strengths": false, "improvements": "depth"}
\*   {"rating": true, "strengths": "clear", "improvements": "depth", "confidence": 1.0}
\*   {"rating": 8.2, "strengths": "clear", "improvements": "depth", "missing points": "x"}
\*   {"strengths": "clear", "improvements": "depth", "confidence": true}
\*   true
\*   {"rating": "inf", "strengths": "clear", "improvements": "depth"}
\*   {"rating": "high", "strengths": "clear", "improvements": "depth"}
\*   {"rating": null, "strengths": "clear", "improvements": "depth"}
FieldOutcomes ==
    LET FieldObjects ==
            {[k \in keys |-> ModelObject(Num(8200))[k]] :
                keys \in SUBSET {"rating", "strengths", "improvements", "missing_points"}}
        Member(name, value) == DumpString(name) \o <<":", WS>> \o value
        Object(m) == <<"{">> \o m \o <<"}">>
        sep == <<",", WS>>
        rating == Member(<<"rating">>, <<"8.2">>)
        strengths == Member(<<"strengths">>, DumpString(<<"clear">>))
        improvements == Member(<<"improvements">>, DumpString(<<"depth">>))
    IN {[kind |-> "invoke_error"], [kind |-> "bad_json"]}
       \cup {[kind |-> "json", value |-> obj] : obj \in FieldObjects}
       \cup {Interpret(text) : text \in
               {Object(rating \o sep \o Member(<<"strengths">>, <<"false">>) \o sep
                       \o improvements),
                Object(Member(<<"rating">>, <<"true">>) \o sep \o strengths \o sep
                       \o improvements \o sep \o Member(<<"confidence">>, <<"1.0">>)),
                Object(rating \o sep \o strengths \o sep \o improvements \o sep
                       \o Member(<<"missing", WS, "points">>, DumpString(<<"x">>))),
                Object(strengths \o sep \o improvements \o sep
                       \o Member(<<"confidence">>, <<"true">>)),
                <<"true">>,
                Object(Member(<<"rating">>, DumpString(<<"inf">>)) \o sep \o strengths
                       \o sep \o improvements),
                Object(Member(<<"rating">>, DumpString(<<"high">>)) \o sep \o strengths
                       \o sep \o improvements),
                Object(Member(<<"rating">>, <<"null">>) \o sep \o strengths \o sep
                       \o improvements)}}

SecondFieldOutcomes(o1) ==
    IF AttemptClass(o1, FALSE) \in {"parse", "other"} THEN FieldOutcomes ELSE {o1}

EvaluateFields ==
    \/ FirstAnswer(Answers)
    \/ \E w \in Waiting("evaluate"), o1 \in FieldOutcomes :
          \E o2 \in SecondFieldOutcomes(o1) :
              Returns(w, evaluate_answer(w.session, w.data, o1, o2))

SpecFields == InitDifficulty /\ [][EvaluateFields]_vars

\* ------------------------------------------------------------ the claims
Levels == {"Easy", "Medium", "Hard"}

LevelUp == [Easy |-> "Medium", Medium |-> "Hard", Hard |-> "Hard"]

LevelDown == [Easy |-> "Easy", Medium |-> "Easy", Hard |-> "Medium"]

Accepted(op) == resp.op = op /\ resp.status = 200

AcceptedNext(op) == resp'.op = op /\ resp'.status = 200

Started(s) == Has(s, "interview_history")

\* C1: a successful /api/evaluate moves the difficulty one level up when the rating
\* is above 7.0 (Hard stays Hard), one level down when it is below 4.0 (Easy stays
\* Easy), and leaves it alone when 4.0 <= rating <= 7.0; the response reports the
\* difficulty before and after.
C1_DifficultyStep ==
    [][(AcceptedNext("evaluate") /\ Has(loaded', "difficulty")
        /\ loaded'["difficulty"] \in Levels) =>
          LET current == loaded'["difficulty"]
              rating == resp'.evaluation.rating
              new == session'["difficulty"]
          IN /\ resp'.previous_difficulty = current
             /\ resp'.updated_difficulty = new
             /\ (rating # NaN /\ rating > 700) => new = LevelUp[current]
             /\ (rating # NaN /\ rating < 400) => new = LevelDown[current]
             /\ (rating # NaN /\ rating >= 400 /\ rating <= 700) => new = current]_vars

\* C1 witness: a rating of exactly 7.00 was recorded at Medium and the difficulty stayed.
C1_Witness ==
    /\ Accepted("evaluate")
    /\ resp.evaluation.rating = 700
    /\ resp.previous_difficulty = "Medium"
    /\ session["difficulty"] = "Medium"

\* C2: whenever a difficulty is stored it is one of Easy, Medium, Hard.
C2_DifficultyInLevels == Has(session, "difficulty") => session["difficulty"] \in Levels

\* C3: in a started session, /api/evaluate issued before any next-question has
\* succeeded since the start is rejected and records no turn.
C3_EvaluateBeforeQuestionRejected ==
    [][Started(session) /\ issued = 0 /\ resp'.op = "evaluate" =>
          /\ resp'.status # 200
          /\ session'["interview_history"] = session["interview_history"]]_vars

\* C4: after a successful /api/evaluate no pending question is stored.
C4_EvaluateClearsPending == Accepted("evaluate") => ~Has(session, "current_question")

\* C5: a successful next-question is accepted whether or not a question is pending
\* (it is refused with 400 only for a missing session key), the single pending slot
\* then holds the text it returned, and no other request changes the slot except by
\* discarding the session.
C5_PendingIsLatestQuestion ==
    [][/\ AcceptedNext("next_question") =>
            /\ Has(session', "current_question")
            /\ session'["current_question"] = resp'.question
       /\ (resp'.op = "next_question" /\ resp'.status = 400) =>
            \E k \in required_session_keys : ~Has(session, k)
       /\ (~AcceptedNext("next_question") /\ Has(session', "current_question")) =>
            /\ Has(session, "current_question")
            /\ session'["current_question"] = session["current_question"]]_vars

\* C5 witness: two questions were issued with no answer recorded, and the slot holds
\* the second.
C5_Witness ==
    /\ Accepted("next_question")
    /\ issued = 2
    /\ resp.question = "q2"
    /\ session["current_question"] = "q2"
    /\ session["interview_history"] = <<>>
    /\ ~Has(session, "last_rating")

\* C6 as stated: in a started session the counter equals the length of history.
C6_CounterEqualsHistoryLength ==
    Started(session) /\ Has(session, "question_count") =>
        session["question_count"] = Len(session["interview_history"])

\* C6 amended: the counter is stored together with history and start-interview
\* resets both (0 and empty); afterwards the counter changes only by a successful
\* next-question, which adds 1 and appends nothing, and an append to history never
\* changes the counter.
C6_CounterMovesWithQuestions ==
    [][/\ Has(session', "question_count") <=> Started(session')
       /\ AcceptedNext("start") =>
            /\ session'["question_count"] = 0
            /\ session'["interview_history"] = <<>>
       /\ (Started(session) /\ Started(session') /\ ~AcceptedNext("start")) =>
            /\ Len(session'["interview_history"]) > Len(session["interview_history"])
                  => session'["question_count"] = session["question_count"]
            /\ session'["question_count"] # session["question_count"]
                  => /\ AcceptedNext("next_question")
                     /\ session'["question_count"] = session["question_count"] + 1
                     /\ session'["interview_history"] = session["interview_history"]]_vars

\* C6 witness: two turns are recorded and the counter stands at 1.
C6_Witness ==
    /\ Accepted("evaluate")
    /\ Len(session["interview_history"]) = 2
    /\ session["question_count"] = 1

\* C7: the counter counts the questions issued. A successful next-question adds
\* exactly 1 and returns the new value as question_number, which is the number of
\* successful next-question calls since the session was started; start-interview sets
\* it to 0; every other request (a failed next-question and /api/evaluate included)
\* leaves it as it is, unless it discards the whole session.
C7_CounterCountsQuestions ==
    [][/\ AcceptedNext("next_question") =>
            /\ Has(session, "question_count")
            /\ session'["question_count"] = session["question_count"] + 1
            /\ resp'.question_number = session'["question_count"]
            /\ resp'.question_number = issued'
       /\ AcceptedNext("start") => session'["question_count"] = 0
       /\ (~AcceptedNext("next_question") /\ ~AcceptedNext("start")
           /\ Has(session, "question_count")) =>
            \/ /\ Has(session', "question_count")
               /\ session'["question_count"] = session["question_count"]
            \/ /\ session' = EmptySession
               /\ resp'.op \in {"end_session", "report"}
       /\ (~AcceptedNext("next_question") /\ ~AcceptedNext("start")
           /\ ~Has(session, "question_count")) => ~Has(session', "question_count")]_vars

\* C7 witness: the second question of a session is issued after one answer was
\* recorded, and is numbered 2.
C7_Witness ==
    /\ Accepted("next_question")
    /\ resp.question_number = 2
    /\ issued = 2
    /\ Len(session["interview_history"]) = 1

\* C8: between start and end of a session history changes only by a successful
\* /api/evaluate, which appends one turn holding the pending question, the answer and
\* the returned evaluation.
C8_HistoryAppendOnly ==
    [][(Started(session) /\ Started(session') /\ ~AcceptedNext("start")) =>
          IF AcceptedNext("evaluate")
          THEN \E a \in Answers :
                  session'["interview_history"] =
                      Append(session["interview_history"],
                             [question |-> session["current_question"],
                              answer |-> a,
                              rating |-> resp'.evaluation.rating,
                              strengths |-> resp'.evaluation.strengths,
                              improvements |-> resp'.evaluation.improvements,
                              missing_points |-> resp'.evaluation.missing_points])
          ELSE session'["interview_history"] = session["interview_history"]]_vars

\* C9: end-session always succeeds and leaves an empty session; on an empty session
\* next-question, evaluate, start-interview and report are all refused and store
\* nothing, and only a successful upload makes the session non-empty again.
C9_EndSessionDiscardsAll ==
    [][/\ resp'.op = "end_session" => (resp'.status = 200 /\ session' = EmptySession)
       /\ (session = EmptySession
           /\ resp'.op \in {"next_question", "evaluate", "start", "report"}) =>
            (resp'.status = 400 /\ session' = EmptySession)
       /\ (session = EmptySession /\ session' # EmptySession) => AcceptedNext("upload")]_vars

\* C9 witness: a started interview was ended and a start-interview was then refused.
C9_Witness ==
    /\ closed = "end"
    /\ session = EmptySession
    /\ resp.op = "start"
    /\ resp.status = 400

\* C10: a successful report leaves an empty session, and from then until a new
\* interview is started every next-question, evaluate and report is refused and no
\* history or pending question is stored.
C10_FinalizedIsTerminal ==
    [][/\ AcceptedNext("report") => session' = EmptySession
       /\ (closed = "report" /\ resp'.op \in {"next_question", "evaluate", "report"}) =>
            /\ resp'.status # 200
            /\ ~Has(session', "interview_history")
            /\ ~Has(session', "current_question")]_vars

\* C10 witness: after a report and a new upload, an answer is still refused.
C10_Witness ==
    /\ closed = "report"
    /\ Has(session, "resume_summary")
    /\ resp.op = "evaluate"
    /\ resp.status = 400

\* The sum of the ratings of the first n turns of h.
RECURSIVE SumTo(_, _)
SumTo(h, n) == IF n = 0 THEN 0 ELSE SumTo(h, n - 1) + h[n].rating

NoTurns(s) == ~Has(s, "interview_history") \/ s["interview_history"] = <<>>

\* C11: a report asked for while history is absent or empty is refused with 400, no
\* model call is made for it, and the session is left as it was.
C11_ReportWithoutTurnsRejected ==
    [][(resp'.op = "report" /\ NoTurns(loaded')) =>
          /\ resp'.status = 400
          /\ agent'.attempts = <<>>
          /\ session' = loaded']_vars

\* C11 witness: a report was refused in a started session with a question pending and
\* no turn recorded.
C11_Witness ==
    /\ resp.op = "report"
    /\ resp.status = 400
    /\ Has(session, "current_question")
    /\ session["interview_history"] = <<>>

\* C12: a successful report carries the number of turns, the history in order, the
\* difficulty the session had reached, and the mean of the turns' ratings.
C12_ReportBundle ==
    [][AcceptedNext("report") =>
          LET h == loaded'["interview_history"]
              r == resp'.report
          IN /\ r.num_questions = Len(h)
             /\ r.history = h
             /\ r.difficulty = loaded'["difficulty"]
             /\ r.role = loaded'["role"]
             /\ r.avg_rating.den > 0
             /\ r.avg_rating.num * Len(h) = SumTo(h, Len(h)) * r.avg_rating.den]_vars

\* C12 witness: the interview started at Easy, its turns were rated 8.20, 3.00 and
\* 5.00, and the report gives Easy and a mean of 16.20 / 3 = 5.40.
C12_Witness ==
    /\ Accepted("report")
    /\ resp.report.num_questions = 3
    /\ [i \in 1..3 |-> resp.report.history[i].rating] = <<820, 300, 500>>
    /\ resp.report.difficulty = "Easy"
    /\ resp.report.avg_rating.num = 540 * resp.report.avg_rating.den

\* C13: when the summary call of a report fails, the report is answered 500 after
\* that one model call, no fallback is used, and the session keeps its state (its
\* history included), so the report can be asked for again.
C13_SummaryFailureKeepsSession ==
    [][(resp'.op = "report" /\ agent'.attempts # <<>> /\ agent'.attempts[1].kind = "fail") =>
          /\ resp'.status = 500
          /\ Len(agent'.attempts) = 1
          /\ ~agent'.fallback
          /\ session' = loaded'
          /\ ~NoTurns(session')]_vars

\* C13 witness: the summary call failed for an interview of three turns, which the
\* session still holds.
C13_Witness ==
    /\ resp.op = "report"
    /\ resp.status = 500
    /\ agent.attempts = <<[kind |-> "fail"]>>
    /\ Len(session["interview_history"]) = 3

\* The last request was an /api/evaluate that reached the agent's model calls.
Evaluated == resp.op = "evaluate" /\ agent.attempts # <<>>

\* The model call returned a text (it did not raise).
ReturnedText(o) == o.kind \in {"bad_json", "json_value", "json"}

\* The attempt did not yield an evaluation: the call failed, or its text is not JSON,
\* or not an object, or an object without a required field or with a rating that is
\* no number.
AttemptFailed(o) ==
    \/ o.kind \in {"invoke_error", "invoke_value_error", "bad_json", "json_value"}
    \/ /\ o.kind = "json"
       /\ \/ {"rating", "strengths", "improvements"} \ (DOMAIN o.value) # {}
          \/ o.value["rating"].t \in {"null", "str"}

\* C14: whatever texts the model returns, the evaluation comes back (the request is
\* answered 200) with rating, strengths, improvements and missing_points, and the
\* rating is in [1, 10].
C14_NormalizerNeverRaises ==
    (Evaluated /\ \A i \in 1..Len(agent.attempts) : ReturnedText(agent.attempts[i])) =>
        /\ resp.status = 200
        /\ {"rating", "strengths", "improvements", "missing_points"}
               \subseteq DOMAIN resp.evaluation
        /\ resp.evaluation.rating # NaN
        /\ resp.evaluation.rating >= 100
        /\ resp.evaluation.rating <= 1000

\* C15: an /api/evaluate on a pending question that reaches the model calls is
\* answered 200 with an evaluation and appends a turn, whatever the calls come to.
C15_EvaluateAlwaysCompletes ==
    [][(resp'.op = "evaluate" /\ agent'.attempts # <<>>) =>
          /\ resp'.status = 200
          /\ Len(session'["interview_history"]) = Len(session["interview_history"]) + 1]_vars

\* C16: one /api/evaluate makes at most 2 model calls; a second call is made only
\* after a first attempt that gave no evaluation, and a first attempt that gave one
\* ends the loop after 1 call with that evaluation.
C16_AtMostTwoCalls ==
    Evaluated =>
        /\ Len(agent.attempts) <= 2
        /\ Len(agent.attempts) = 2 => AttemptFailed(agent.attempts[1])
        /\ ~AttemptFailed(agent.attempts[1]) =>
              /\ Len(agent.attempts) = 1
              /\ resp.status = 200
              /\ ~agent.fallback

\* C16 witness: the first output did not parse, the second call gave the evaluation.
C16_Witness ==
    /\ Evaluated
    /\ resp.status = 200
    /\ Len(agent.attempts) = 2
    /\ agent.attempts[1].kind = "bad_json"
    /\ ~AttemptFailed(agent.attempts[2])
    /\ resp.evaluation.rating = 820

\* C17: every failed first attempt is followed by a second model call.
C17_FirstFailureRetried ==
    (Evaluated /\ AttemptFailed(agent.attempts[1])) => Len(agent.attempts) = 2

\* C18: the fallback scorer runs only after two model calls that both failed.
C18_FallbackAfterTwoFailures ==
    (resp.op = "evaluate" /\ agent.fallback) =>
        /\ Len(agent.attempts) = 2
        /\ AttemptFailed(agent.attempts[1])
        /\ AttemptFailed(agent.attempts[2])

\* C18 witness: a failed call, then an output that did not parse, then the fallback.
C18_Witness ==
    /\ resp.op = "evaluate"
    /\ resp.status = 200
    /\ agent.fallback
    /\ agent.attempts = <<[kind |-> "invoke_error"], [kind |-> "bad_json"]>>

\* The answer holds a don't-know phrase once lower-cased.
SaysDontKnow(a) ==
    \E p \in dont_know_phrases :
        ContainsPhrase([i \in 1..Len(a) |-> Lower(a[i])], p)

FallbackTexts ==
    (150 :> <<"Candidate was honest about not knowing",
              "Study the topic and provide a substantive answer">>)
    @@ (300 :> <<"Brief attempt at answering",
                 "Provide more detailed explanation with examples">>)
    @@ (500 :> <<"Provided some relevant information",
                 "Expand on concepts and add more depth">>)
    @@ (600 :> <<"Detailed response provided",
                 "Structure could be improved for clarity">>)

\* C19: a fallback rating is 1.50 for an answer with a don't-know phrase or fewer
\* than 3 words, else 3.00 below 10 words, else 5.00 below 30 words, else 6.00, and
\* strengths and improvements are the fixed texts of that rating.
C19_FallbackRating ==
    (resp.op = "evaluate" /\ resp.status = 200 /\ agent.fallback) =>
        LET h == session["interview_history"]
            a == h[Len(h)].answer
            e == resp.evaluation
        IN /\ e.rating = IF SaysDontKnow(a) \/ Len(a) < 3 THEN 150
                          ELSE IF Len(a) < 10 THEN 300
                          ELSE IF Len(a) < 30 THEN 500
                          ELSE 600
           /\ e.strengths = FallbackTexts[e.rating][1]
           /\ e.improvements = FallbackTexts[e.rating][2]

\* C19 witness: an answer of more than 30 words that opens with "Not Sure" got 1.50.
C19_Witness ==
    /\ resp.op = "evaluate"
    /\ resp.status = 200
    /\ agent.fallback
    /\ Len(session["interview_history"][1].answer) > 30
    /\ session["interview_history"][1].answer[1] = "Not"
    /\ resp.evaluation.rating = 150

\* C20: a fallback evaluation has the could-not-parse text as missing_points, and
\* the turn appended for it holds the same text.
C20_FallbackMarked ==
    (resp.op = "evaluate" /\ agent.fallback) =>
        LET h == session["interview_history"]
            sentinel == "Unable to parse detailed feedback from evaluation system"
        IN /\ h # <<>>
           /\ h[Len(h)].missing_points = sentinel
           /\ resp.status = 200 => resp.evaluation.missing_points = sentinel

\* C20 witness: the 15-word answer was scored 5.00 by the fallback and its turn
\* carries the could-not-parse text.
C20_Witness ==
    /\ resp.op = "evaluate"
    /\ resp.status = 200
    /\ agent.fallback
    /\ session["interview_history"][1].answer = Words15
    /\ session["interview_history"][1].rating = 500
    /\ session["interview_history"][1].missing_points =
           "Unable to parse detailed feedback from evaluation system"

\* C21: every rating returned by /api/evaluate and every rating stored in history is a
\* number between 1.00 and 10.00 (ratings are kept in hundredths, so 2 decimals), and
\* clamping and rounding it again gives the same rating.
C21_RatingsNormalized ==
    LET Normal(r) == /\ r # NaN
                     /\ r >= 100
                     /\ r <= 1000
                     /\ NormalizeRating(Num(10 * r)) = r
    IN /\ Has(session, "interview_history") =>
            \A i \in 1..Len(session["interview_history"]) :
                Normal(session["interview_history"][i].rating)
       /\ (resp.op = "evaluate" /\ resp.status = 200) => Normal(resp.evaluation.rating)

\* The output is an object that lacks rating, strengths or improvements.
LacksRequired(o) ==
    o.kind = "json" /\ {"rating", "strengths", "improvements"} \ (DOMAIN o.value) # {}

\* The output is an object that has the three required fields and no missing_points.
LacksOnlyMissingPoints(o) ==
    /\ o.kind = "json"
    /\ {"rating", "strengths", "improvements"} \subseteq DOMAIN o.value
    /\ "missing_points" \notin DOMAIN o.value

\* C22: an object without rating, strengths or improvements is never returned as the
\* evaluation: on attempt 1 it is followed by a second model call, on attempt 2 by
\* the fallback evaluation, and the request is answered 200. An object that lacks
\* missing_points only is never answered with an error: it is returned with
\* missing_points "N/A" and every member it had, unless its rating is a string that
\* is no number, which is a parse failure like a missing field.
C22_MissingFieldIsParseFailure ==
    Evaluated =>
        LET a == agent.attempts
            last == a[Len(a)]
        IN /\ LacksRequired(a[1]) => Len(a) = 2
           /\ LacksRequired(last) =>
                 /\ Len(a) = 2
                 /\ agent.fallback
                 /\ resp.status = 200
                 /\ resp.evaluation.missing_points =
                        "Unable to parse detailed feedback from evaluation system"
           /\ LacksOnlyMissingPoints(last) =>
                 /\ resp.status = 200
                 /\ IF last.value["rating"].t = "str"
                    THEN Len(a) = 2 /\ agent.fallback
                    ELSE /\ ~agent.fallback
                         /\ DOMAIN resp.evaluation =
                                DOMAIN last.value \cup {"missing_points"}
                         /\ resp.evaluation.rating = NormalizeRating(last.value["rating"])
                         /\ resp.evaluation.missing_points = "N/A"
                         /\ \A k \in DOMAIN last.value \ {"rating"} :
                                resp.evaluation[k] = last.value[k]

\* C24: a next-question whose model call fails is answered 500 after that one call,
\* with no question in the response, and the session (pending question, counter,
\* history and difficulty included) is left as it was.
C24_FailedQuestionChangesNothing ==
    [][(resp'.op = "next_question" /\ agent'.attempts # <<>>
        /\ agent'.attempts[1].kind = "fail") =>
          /\ resp'.status = 500
          /\ Len(agent'.attempts) = 1
          /\ "question" \notin DOMAIN resp'
          /\ session' = loaded']_vars

\* C24 witness: the call for the second question failed; the first question is still
\* the pending one, the counter is 1 and the first turn is in history.
C24_Witness ==
    /\ resp.op = "next_question"
    /\ resp.status = 500
    /\ Len(agent.attempts) = 1
    /\ agent.attempts[1].kind = "fail"
    /\ Has(session, "current_question")
    /\ session["current_question"] = "q1"
    /\ session["question_count"] = 1
    /\ Len(session["interview_history"]) = 1

ConfigurationKeys == {"role", "difficulty", "model_id", "language"}

\* C25: start-interview without a stored resume summary is refused with 400 and
\* stores nothing; next-question is refused with 400, with no model call and nothing
\* stored, whenever the resume summary or a configuration field is absent; and a
\* configuration is stored only together with a resume summary.
C25_ResumeRequired ==
    [][/\ (resp'.op = "start" /\ ~Has(loaded', "resume_summary")) =>
            /\ resp'.status = 400
            /\ session' = loaded'
       /\ (resp'.op = "next_question"
           /\ \E k \in ConfigurationKeys \cup {"resume_summary"} : ~Has(loaded', k)) =>
            /\ resp'.status = 400
            /\ agent'.attempts = <<>>
            /\ session' = loaded'
       /\ (\E k \in ConfigurationKeys : Has(session', k)) =>
            Has(session', "resume_summary")]_vars

\* C25 witness: after an interview was ended, a complete start-interview request was
\* refused on the empty session.
C25_Witness ==
    /\ resp.op = "start"
    /\ resp.status = 400
    /\ session = EmptySession
    /\ closed = "end"

\* C26: while an interview is running (from start-interview until the session is
\* cleared or a new interview is started) the stored resume summary does not change.
C26_ResumeSummaryFixed ==
    [][(Started(session) /\ Started(session') /\ ~AcceptedNext("start")) =>
          session'["resume_summary"] = session["resume_summary"]]_vars

\* C28: the pruning step of generate_question removes exactly the 10 oldest entries
\* and keeps the others in order when the memory holds more than 20, and changes
\* nothing when it holds 20 or fewer.
C28_PruneDropsOldestTen ==
    [][resp'.op = "generate_question" =>
          LET kept == IF resp'.kind = "raise" THEN memory'
                      ELSE SubSeq(memory', 1, Len(memory') - 1)
          IN IF Len(memory) > 20
             THEN /\ Len(kept) = Len(memory) - 10
                  /\ \A i \in 1..Len(kept) : kept[i] = memory[i + 10]
             ELSE kept = memory]_vars

\* C28 witness: 22 entries (11 scored turns) were pruned to 12, the first of them the
\* sixth question.
C28_Witness ==
    /\ resp.op = "generate_question"
    /\ resp.kind = "raise"
    /\ issued = 11
    /\ answered = 11
    /\ Len(memory) = 12
    /\ memory[1] = [type |-> "human", text |-> <<"Generated question", 6>>]
    /\ memory[12] = [type |-> "ai", text |-> <<"Answer evaluated", 820>>]

\* C29: whenever generate_question has just returned, the memory holds at most 20
\* entries.
C29_MemoryBounded ==
    (resp.op = "generate_question" /\ resp.kind = "return") => Len(memory) <= 20

\* C30: before any pruning (at most 10 questions asked), the memory holds two entries
\* for every evaluation returned, scored by the model or by the fallback, a question
\* entry followed by an evaluation entry, and one more for a pending question.
C30_TwoEntriesPerTurn ==
    issued <= 10 =>
        /\ Len(memory) = 2 * answered + (IF issued > answered THEN 1 ELSE 0)
        /\ \A i \in 1..Len(memory) :
              memory[i].type = (IF i % 2 = 1 THEN "human" ELSE "ai")

\* The resume summary, difficulty, history, counter and pending question of a session.
Interview(s) ==
    [k \in DOMAIN s \cap {"resume_summary", "difficulty", "interview_history",
                          "question_count", "current_question"} |-> s[k]]

\* C27: under every interleaving of the requests of two clients, each client's
\* difficulty, history, counter and pending question (and its resume summary) are
\* what that client's own requests and their outcomes come to, in the same order,
\* whatever the other client sent in between or has waiting.
C27_SessionsIndependent ==
    /\ Interview(session) = solo[1]
    /\ Interview(peer) = solo[2]

\* C27 witness: the second client's answer was evaluated right after a request of the
\* first client, which came after the second client's question; both interviews have
\* a recorded turn, at different difficulties, and a request of the first client
\* waits in its model call.
C27_Witness ==
    /\ resp.op = "evaluate"
    /\ resp.status = 200
    /\ resp["client"] = 2
    /\ resp["before"] = 1
    /\ Started(session)
    /\ Len(session["interview_history"]) = 1
    /\ Len(peer["interview_history"]) = 1
    /\ session["difficulty"] # peer["difficulty"]
    /\ session["current_question"] = "q1"
    /\ peer["current_question"] = "q2"
    /\ \E w \in BagToSet(waiting) : w.client = 1

\* The record of C23 as the evaluation should give it back.
RoundTrip(rec) ==
    [rating |-> rec.rating, strengths |-> rec.strengths,
     improvements |-> rec.improvements,
     missing_points |-> IF rec.missing_points.t = "list"
                        THEN JoinItems(rec.missing_points.items)
                        ELSE rec.missing_points.s]

\* C23: when the model returned the JSON text of a well-formed record, the evaluation
\* returned is that record field for field, a list-valued missing_points joined with
\* ', '.
C23_RoundTrip ==
    \A rec \in TextRecords :
        (Evaluated /\ agent.attempts[1].text = Serialize(rec)) =>
            /\ resp.status = 200
            /\ ~agent.fallback
            /\ resp.evaluation = RoundTrip(rec)

\* C33: an evaluation that came from the fallback moves the difficulty by the same
\* rule as any rating (down below 4.0, unchanged otherwise, its ratings being at most
\* 7.0) and never up: the new difficulty is the previous one or one level lower, and
\* it is the one stored.
C33_FallbackNeverRaises ==
    (Accepted("evaluate") /\ agent.fallback) =>
        LET rating == resp.evaluation.rating
            previous == resp.previous_difficulty
        IN /\ session["last_rating"] = rating
           /\ session["difficulty"] = resp.updated_difficulty
           /\ resp.updated_difficulty \in {previous, LevelDown[previous]}
           /\ resp.updated_difficulty =
                 (IF rating > 700 THEN LevelUp[previous]
                  ELSE IF rating < 400 THEN LevelDown[previous]
                  ELSE previous)

\* C33 witness: a long answer scored 6.00 by the fallback at Medium, which stays Medium.
C33_Witness ==
    /\ Accepted("evaluate")
    /\ agent.fallback
    /\ resp.evaluation.rating = 600
    /\ resp.previous_difficulty = "Medium"
    /\ session["difficulty"] = "Medium"

\* C34: an /api/evaluate answered with an error leaves the session as it was.
C34_EvaluateErrorKeepsSession ==
    [][(resp'.op = "evaluate" /\ resp'.status # 200) => session' = session]_vars

\* C35: in a started session the history holds at most as many turns as questions
\* were issued since the start.
C35_HistoryWithinCounter ==
    Started(session) => Len(session["interview_history"]) <= session["question_count"]

StoredWithQuestion ==
    {"resume_summary", "api_keys", "role", "difficulty", "model_id", "language"}

\* C36: whenever a pending question is stored, the resume summary, the api keys, the
\* role, the difficulty, the model id and the language are stored too; and an
\* /api/evaluate answered 500 got as far as calling the model.
C36_PendingImpliesConfiguration ==
    /\ Has(session, "current_question") =>
            \A k \in StoredWithQuestion : Has(session, k)
    /\ (resp.op = "evaluate" /\ resp.status = 500) => agent.attempts # <<>>

\* C36 witness: the first answer of an interview was evaluated on a session holding
\* a pending question.
C36_Witness ==
    /\ Accepted("evaluate")
    /\ Has(session, "current_question")
    /\ Len(session["interview_history"]) = 1

\* C37: the agent that serves a next-question or an evaluate request starts with an
\* empty memory: when the request is over its memory holds the one entry the request
\* added (the question, or the rating of a model-scored evaluation) or nothing, never
\* more than 1 entry, whatever the requests before; so pruning, which needs more than
\* 20 entries, removes nothing.
C37_FreshAgentPerRequest ==
    [][(resp'.op \in {"next_question", "evaluate"} /\ agent'.attempts # <<>>) =>
          /\ Len(memory') <= 1
          /\ manage_memory_threshold(memory') = memory'
          /\ memory' =
                (IF AcceptedNext("next_question")
                 THEN <<[type |-> "human",
                         text |-> <<"Generated question", resp'.question>>]>>
                 ELSE IF AcceptedNext("evaluate") /\ ~agent'.fallback
                 THEN <<[type |-> "ai",
                         text |-> <<"Answer evaluated", resp'.evaluation.rating>>]>>
                 ELSE <<>>)]_vars

\* C37 witness: the third question of an interview was issued after two recorded
\* turns, and the memory of the agent that issued it holds that question only.
C37_Witness ==
    /\ Accepted("next_question")
    /\ issued = 3
    /\ Len(session["interview_history"]) = 2
    /\ memory = <<[type |-> "human", text |-> <<"Generated question", resp.question>>]>>

\* The text of the first attempt as the repair receives it.
RepairInput == StripFences(strip(agent.attempts[1].text))

\* Where C31 puts the cut: after the last quote in front of the last comma in front
\* of the (last) ellipsis; 0 where there is no such comma or no such quote.
FieldBoundary(text) ==
    LET marks == {i \in 1..Len(text) : text[i] = Ellipsis}
        commas == {i \in 1..Len(text) : text[i] = "," /\ i < Greatest(marks)}
        quotes == {j \in 1..Len(text) : HoldsQuote(text[j]) /\ j < Greatest(commas)}
    IN IF marks = {} \/ commas = {} \/ quotes = {} THEN 0 ELSE Greatest(quotes)

\* C31: a text that needs repair and holds an ellipsis is cut just after the last
\* quote in front of the last comma in front of the ellipsis.
C31_CutBeforeEllipsis ==
    (Evaluated /\ NeedsRepair(RepairInput) /\ FieldBoundary(RepairInput) > 0) =>
        CutAtLastField(RepairInput) = SubSeq(RepairInput, 1, FieldBoundary(RepairInput))

\* C32: a text that needs repair and has at least as many opening as closing braces
\* comes out of the repair with as many closing as opening braces.
C32_BracesBalanced ==
    (Evaluated /\ NeedsRepair(RepairInput)
     /\ Count(RepairInput, "{") >= Count(RepairInput, "}")) =>
        Count(RepairTruncated(RepairInput), "{") = Count(RepairTruncated(RepairInput), "}")

====
